---- MODULE Spec2Model ----
(***************************************************************************)
(* diffly: CSV diff core (diffly-core) and engine (diffly-engine).          *)
(*                                                                         *)
(* Strings are sequences of bytes, so that the byte-wise order of Rust      *)
(* strings and the FNV-1a key hash are computed as the code computes them.  *)
(* A CSV file is the sequence of its records (the first one is the header), *)
(* a record is a sequence of cells.                                         *)
(***************************************************************************)
EXTENDS Integers, Sequences, FiniteSets, TLC

-----------------------------------------------------------------------------
(* Bounds of the model                                                      *)

MaxRows == 2
MaxPartitions == 2
MaxInterval == 2
MaxRunRows == 1
MaxWidth == 2
MaxPairRows == 1

-----------------------------------------------------------------------------
(* Strings                                                                  *)

S_id == <<105, 100>>
S_name == <<110, 97, 109, 101>>
S_10 == <<49, 48>>
S_3 == <<51>>
S_x == <<120>>
S_y == <<121>>
S_empty == <<>>
BOM == <<239, 187, 191>>

Range(s) == {s[i] : i \in 1..Len(s)}

Min(x, y) == IF x < y THEN x ELSE y
Max(x, y) == IF x < y THEN y ELSE x

\* Ord for str: byte-wise lexicographic, a proper prefix is smaller.
RECURSIVE StrLessFrom(_, _, _)
StrLessFrom(s, t, i) ==
    IF i > Len(s) THEN i <= Len(t)
    ELSE IF i > Len(t) THEN FALSE
    ELSE IF s[i] < t[i] THEN TRUE
    ELSE IF t[i] < s[i] THEN FALSE
    ELSE StrLessFrom(s, t, i + 1)

\* Variant: shorter strings first, then byte-wise
StrLess_LengthFirst(s, t) ==
    Len(s) < Len(t) \/ (Len(s) = Len(t) /\ StrLessFrom(s, t, 1))

StrLess(s, t) == StrLessFrom(s, t, 1)

\* Ord for Vec<String>: part by part, each part as a string.
RECURSIVE KeyLessFrom(_, _, _)
KeyLessFrom(k1, k2, i) ==
    IF i > Len(k1) THEN i <= Len(k2)
    ELSE IF i > Len(k2) THEN FALSE
    ELSE IF StrLess(k1[i], k2[i]) THEN TRUE
    ELSE IF StrLess(k2[i], k1[i]) THEN FALSE
    ELSE KeyLessFrom(k1, k2, i + 1)

\* Variant: the reverse order of key tuples
KeyLess_Descending(k1, k2) == KeyLessFrom(k2, k1, 1)

KeyLess(k1, k2) == KeyLessFrom(k1, k2, 1)

\* slice::sort on strings: each element is inserted before the first
\* greater one.
RECURSIVE InsertString(_, _)
InsertString(x, s) ==
    IF s = <<>> THEN <<x>>
    ELSE IF StrLess(x, s[1]) THEN <<x>> \o s
    ELSE <<s[1]>> \o InsertString(x, Tail(s))

RECURSIVE SortStrings(_)
SortStrings(s) ==
    IF s = <<>> THEN <<>>
    ELSE InsertString(s[Len(s)], SortStrings(SubSeq(s, 1, Len(s) - 1)))

\* slice::sort on key tuples
RECURSIVE InsertKey(_, _)
InsertKey(x, s) ==
    IF s = <<>> THEN <<x>>
    ELSE IF KeyLess(x, s[1]) THEN <<x>> \o s
    ELSE <<s[1]>> \o InsertKey(x, Tail(s))

RECURSIVE SortKeys(_)
SortKeys(s) ==
    IF s = <<>> THEN <<>>
    ELSE InsertKey(s[Len(s)], SortKeys(SubSeq(s, 1, Len(s) - 1)))

\* The iteration order of a HashSet / HashMap is arbitrary: the seed stands
\* for the hasher state, and selects one enumeration or its reverse.
HashSeeds == {0, 1}

RECURSIVE SetToSeq(_)
SetToSeq(S) ==
    IF S = {} THEN <<>>
    ELSE LET x == CHOOSE y \in S : TRUE IN <<x>> \o SetToSeq(S \ {x})

Reverse(s) == [i \in 1..Len(s) |-> s[Len(s) + 1 - i]]

HashIter(S, seed) ==
    IF seed = 0 THEN SetToSeq(S) ELSE Reverse(SetToSeq(S))

-----------------------------------------------------------------------------
(* Key hasher and partitioner (diffly-engine)                               *)
(* A u64 is kept as its eight bytes, least significant first.               *)

FNV_OFFSET_BASIS == <<37, 35, 34, 132, 228, 156, 242, 203>>
\* 0x100000001b3 = 2^40 + 2^8 + 0xb3: bytes 0, 1 and 5 are the non-zero ones
FNV_PRIME == <<179, 1, 0, 0, 0, 1, 0, 0>>
KEY_DELIMITER == 31

Bit(a, i) == (a \div (2 ^ i)) % 2

\* bitwise exclusive or of two bytes
Xor8(a, b) ==
    ((Bit(a, 0) + Bit(b, 0)) % 2)
    + 2 * ((Bit(a, 1) + Bit(b, 1)) % 2)
    + 4 * ((Bit(a, 2) + Bit(b, 2)) % 2)
    + 8 * ((Bit(a, 3) + Bit(b, 3)) % 2)
    + 16 * ((Bit(a, 4) + Bit(b, 4)) % 2)
    + 32 * ((Bit(a, 5) + Bit(b, 5)) % 2)
    + 64 * ((Bit(a, 6) + Bit(b, 6)) % 2)
    + 128 * ((Bit(a, 7) + Bit(b, 7)) % 2)

\* hash ^= u64::from(byte)
XorByte(h, b) == [h EXCEPT ![1] = Xor8(h[1], b)]

\* hash.wrapping_mul(FNV_PRIME): the product modulo 2^64, byte by byte with
\* the carry; only the non-zero bytes of the prime contribute.
WrappingMulPrime(h) ==
    LET p == FNV_PRIME
        t1 == h[1] * p[1]
        t2 == h[2] * p[1] + h[1] * p[2] + (t1 \div 256)
        t3 == h[3] * p[1] + h[2] * p[2] + (t2 \div 256)
        t4 == h[4] * p[1] + h[3] * p[2] + (t3 \div 256)
        t5 == h[5] * p[1] + h[4] * p[2] + (t4 \div 256)
        t6 == h[6] * p[1] + h[5] * p[2] + h[1] * p[6] + (t5 \div 256)
        t7 == h[7] * p[1] + h[6] * p[2] + h[2] * p[6] + (t6 \div 256)
        t8 == h[8] * p[1] + h[7] * p[2] + h[3] * p[6] + (t7 \div 256)
    IN  <<t1 % 256, t2 % 256, t3 % 256, t4 % 256, t5 % 256, t6 % 256, t7 % 256, t8 % 256>>

RECURSIVE AbsorbBytes(_, _, _)
AbsorbBytes(h, bytes, i) ==
    IF i > Len(bytes) THEN h
    ELSE AbsorbBytes(WrappingMulPrime(XorByte(h, bytes[i])), bytes, i + 1)

RECURSIVE HashParts(_, _, _)
HashParts(h, key_parts, idx) ==
    IF idx > Len(key_parts) THEN h
    ELSE LET h1 == AbsorbBytes(h, key_parts[idx], 1)
             h2 == IF idx < Len(key_parts)
                   THEN WrappingMulPrime(XorByte(h1, KEY_DELIMITER))
                   ELSE h1
         IN  HashParts(h2, key_parts, idx + 1)

\* the parts of a key laid end to end, with sep between consecutive parts
RECURSIVE JoinParts(_, _)
JoinParts(key_parts, sep) ==
    IF key_parts = <<>> THEN <<>>
    ELSE IF Len(key_parts) = 1 THEN key_parts[1]
    ELSE key_parts[1] \o sep \o JoinParts(Tail(key_parts), sep)

\* Variant: the parts are absorbed with nothing between them
stable_key_hash_NoSeparator(key_parts) ==
    AbsorbBytes(FNV_OFFSET_BASIS, JoinParts(key_parts, <<>>), 1)

stable_key_hash(key_parts) == HashParts(FNV_OFFSET_BASIS, key_parts, 1)

\* a u64 modulo m, from the most significant byte down
U64Mod(h, m) ==
    LET r8 == h[8] % m
        r7 == (r8 * 256 + h[7]) % m
        r6 == (r7 * 256 + h[6]) % m
        r5 == (r6 * 256 + h[5]) % m
        r4 == (r5 * 256 + h[4]) % m
        r3 == (r4 * 256 + h[3]) % m
        r2 == (r3 * 256 + h[2]) % m
    IN  (r2 * 256 + h[1]) % m

partition_for_key(key_parts, partitions) ==
    LET total_partitions == Max(partitions, 1)
    IN  U64Mod(stable_key_hash(key_parts), total_partitions)

-----------------------------------------------------------------------------
(* diffly-core: results, CSV reader, header reconciliation                  *)

Ok(v) == [ok |-> TRUE, val |-> v]
Err(code, info) == [ok |-> FALSE, code |-> code, info |-> info]

\* Option<&String>: Some(v) is <<v>>, None is <<>>
Get(row, column) == IF column \in DOMAIN row THEN <<row[column]>> ELSE <<>>
UnwrapOrDefault(opt) == IF opt = <<>> THEN <<>> ELSE opt[1]

IsPrefix(p, s) == Len(p) <= Len(s) /\ SubSeq(s, 1, Len(p)) = p

normalize_header(header) ==
    IF header # <<>> /\ IsPrefix(BOM, header[1])
    THEN [header EXCEPT ![1] = SubSeq(header[1], Len(BOM) + 1, Len(header[1]))]
    ELSE header

\* Variant: every header is accepted
validate_header_Lenient(header, side) == Ok(TRUE)

\* Ok, or the first name that was seen before
validate_header(header, side) ==
    LET dups == {i \in 1..Len(header) : \E j \in 1..(i - 1) : header[j] = header[i]}
    IN  IF dups = {} THEN Ok(TRUE)
        ELSE LET i == CHOOSE i \in dups : \A j \in dups : i <= j
             IN  Err("duplicate_column_name", [side |-> side, name |-> header[i]])

\* Variant: the cells are taken in the order of the sorted header
ZipRow_SortedHeader(header, record) ==
    LET sorted == SortStrings(header)
        n == Min(Len(sorted), Len(record))
    IN  [c \in {sorted[i] : i \in 1..n} |->
            record[CHOOSE i \in 1..n : sorted[i] = c]]

\* BTreeMap built by inserting header.zip(record): a later cell of the same
\* column replaces the earlier one.
ZipRow(header, record) ==
    LET n == Min(Len(header), Len(record))
    IN  [c \in {header[i] : i \in 1..n} |->
            record[CHOOSE i \in 1..n :
                      header[i] = c /\ \A j \in (i + 1)..n : header[j] # c]]

\* A file is the sequence of its records; the record at position i is CSV row i.
read_csv_reader(file, side) ==
    IF Len(file) = 0 THEN Err("empty_file", [side |-> side])
    ELSE
      LET header == normalize_header(file[1])
          valid == validate_header(header, side)
          width == Len(header)
          bad == {i \in 2..Len(file) : Len(file[i]) # width}
      IN  IF ~valid.ok THEN valid
          ELSE IF bad # {}
          THEN LET row_index == CHOOSE i \in bad : \A j \in bad : i <= j
               IN  Err("row_width_mismatch",
                       [side |-> side, row_index |-> row_index,
                        expected |-> width, got |-> Len(file[row_index])])
          ELSE Ok([header |-> header,
                   rows |-> [i \in 1..(Len(file) - 1) |->
                                <<i + 1, ZipRow(header, file[i + 1])>>]])

comparison_columns(a_header, b_header, header_mode) ==
    IF header_mode = "strict"
    THEN IF a_header # b_header
         THEN Err("header_mismatch", [mode |-> "strict"])
         ELSE Ok(a_header)
    ELSE LET a_sorted == SortStrings(a_header)
             b_sorted == SortStrings(b_header)
         IN  IF a_sorted # b_sorted
             THEN Err("header_mismatch", [mode |-> "sorted"])
             ELSE Ok(a_sorted)

key_tuple(row, key_columns) ==
    [i \in 1..Len(key_columns) |-> UnwrapOrDefault(Get(row, key_columns[i]))]

\* serde_json Map: inserting a column twice keeps the later value
key_object(key_columns, key_tuple_value) ==
    [c \in Range(key_columns) |->
        key_tuple_value[CHOOSE i \in 1..Len(key_columns) :
            key_columns[i] = c /\ \A j \in (i + 1)..Len(key_columns) : key_columns[j] # c]]

row_to_value(row) == [c \in DOMAIN row |-> row[c]]

EmptyMap == [k \in {} |-> <<>>]
MapInsert(m, k, v) == [x \in DOMAIN m \cup {k} |-> IF x = k THEN v ELSE m[x]]

\* The checks of one row's key columns, in key-column order
RECURSIVE CheckKeyColumns(_, _, _, _, _)
CheckKeyColumns(row, row_index, key_columns, side, i) ==
    IF i > Len(key_columns) THEN Ok(TRUE)
    ELSE LET value == Get(row, key_columns[i])
         IN  IF value = <<>>
             THEN Err("missing_key_column", [column |-> key_columns[i]])
             ELSE IF value[1] = <<>>
             THEN Err("missing_key_value",
                      [side |-> side, row_index |-> row_index, column |-> key_columns[i]])
             ELSE CheckKeyColumns(row, row_index, key_columns, side, i + 1)

RECURSIVE IndexRowsFrom(_, _, _, _, _)
IndexRowsFrom(rows, key_columns, side, i, indexed) ==
    IF i > Len(rows) THEN Ok(indexed)
    ELSE LET row_index == rows[i][1]
             row == rows[i][2]
             checked == CheckKeyColumns(row, row_index, key_columns, side, 1)
             key == key_tuple(row, key_columns)
         IN  IF ~checked.ok THEN checked
             ELSE IF key \in DOMAIN indexed
             THEN Err("duplicate_key",
                      [side |-> side, key |-> key_object(key_columns, key),
                       prior_row |-> indexed[key][1], row_index |-> row_index])
             ELSE IndexRowsFrom(rows, key_columns, side, i + 1,
                                MapInsert(indexed, key, rows[i]))

index_rows(rows, key_columns, side) ==
    IndexRowsFrom(rows, key_columns, side, 1, EmptyMap)

-----------------------------------------------------------------------------
(* diffly-core: keyed and positional diff                                   *)

SchemaEvent(a_header, b_header) ==
    [type |-> "schema", columns_a |-> a_header, columns_b |-> b_header]

\* Variant: rows_added does not start from zero
NewCounters_FromOne(events) ==
    [events |-> events, rows_total_compared |-> 0, rows_added |-> 1,
     rows_removed |-> 0, rows_changed |-> 0, rows_unchanged |-> 0]

\* The accumulators of a diff loop: the event list and the five counters
NewCounters(events) ==
    [events |-> events, rows_total_compared |-> 0, rows_added |-> 0,
     rows_removed |-> 0, rows_changed |-> 0, rows_unchanged |-> 0]

\* Variant: rows_unchanged counts the unchanged events of the list
StatsEvent_UnchangedEmitted(st) ==
    [type |-> "stats", rows_total_compared |-> st.rows_total_compared,
     rows_added |-> st.rows_added, rows_removed |-> st.rows_removed,
     rows_changed |-> st.rows_changed,
     rows_unchanged |->
         Cardinality({i \in 1..Len(st.events) : st.events[i].type = "unchanged"})]

StatsEvent(st) ==
    [type |-> "stats", rows_total_compared |-> st.rows_total_compared,
     rows_added |-> st.rows_added, rows_removed |-> st.rows_removed,
     rows_changed |-> st.rows_changed, rows_unchanged |-> st.rows_unchanged]

\* Variant: the filter keeps the columns whose values agree
ChangedColumns_Same(compare_columns, row_a, row_b) ==
    LET agrees(column) == Get(row_a, column) = Get(row_b, column)
    IN  SelectSeq(compare_columns, agrees)

\* Variant: the differing columns listed last to first
ChangedColumns_Reversed(compare_columns, row_a, row_b) ==
    LET differs(column) == Get(row_a, column) # Get(row_b, column)
    IN  Reverse(SelectSeq(compare_columns, differs))

\* compare_columns.iter().filter(|c| row_a.get(c) != row_b.get(c))
ChangedColumns(compare_columns, row_a, row_b) ==
    LET differs(column) == Get(row_a, column) # Get(row_b, column)
    IN  SelectSeq(compare_columns, differs)

\* Variant: both ends of a delta entry read from row_a
DeltaOf_FromOnly(changed_columns, row_a, row_b) ==
    [c \in Range(changed_columns) |->
        [from |-> UnwrapOrDefault(Get(row_a, c)), to |-> UnwrapOrDefault(Get(row_a, c))]]

DeltaOf(changed_columns, row_a, row_b) ==
    [c \in Range(changed_columns) |->
        [from |-> UnwrapOrDefault(Get(row_a, c)), to |-> UnwrapOrDefault(Get(row_b, c))]]

KeyedStep(st, key, indexed_a, indexed_b, compare_columns, options) ==
    LET key_obj == key_object(options.key_columns, key)
        in_a == key \in DOMAIN indexed_a
        in_b == key \in DOMAIN indexed_b
    IN  IF ~in_a /\ in_b
        THEN [st EXCEPT !.rows_added = @ + 1,
                        !.events = Append(@, [type |-> "added", key |-> key_obj,
                                              row |-> row_to_value(indexed_b[key][2])])]
        ELSE IF in_a /\ ~in_b
        THEN [st EXCEPT !.rows_removed = @ + 1,
                        !.events = Append(@, [type |-> "removed", key |-> key_obj,
                                              row |-> row_to_value(indexed_a[key][2])])]
        ELSE IF in_a /\ in_b
        THEN LET row_a == indexed_a[key][2]
                 row_b == indexed_b[key][2]
                 changed_columns == ChangedColumns(compare_columns, row_a, row_b)
             IN  IF changed_columns = <<>>
                 THEN [st EXCEPT !.rows_total_compared = @ + 1,
                                 !.rows_unchanged = @ + 1,
                                 !.events = IF options.emit_unchanged
                                            THEN Append(@, [type |-> "unchanged",
                                                            key |-> key_obj,
                                                            row |-> row_to_value(row_a)])
                                            ELSE @]
                 ELSE [st EXCEPT !.rows_total_compared = @ + 1,
                                 !.rows_changed = @ + 1,
                                 !.events = Append(@, [type |-> "changed",
                                                       key |-> key_obj,
                                                       changed |-> changed_columns,
                                                       before |-> row_to_value(row_a),
                                                       after |-> row_to_value(row_b),
                                                       delta |-> DeltaOf(changed_columns,
                                                                         row_a, row_b)])]
        ELSE st

RECURSIVE KeyedLoop(_, _, _, _, _, _, _)
KeyedLoop(st, all_keys, i, indexed_a, indexed_b, compare_columns, options) ==
    IF i > Len(all_keys) THEN st
    ELSE KeyedLoop(KeyedStep(st, all_keys[i], indexed_a, indexed_b, compare_columns, options),
                   all_keys, i + 1, indexed_a, indexed_b, compare_columns, options)

\* Variant: the keys of A only
AllKeys_OnlyA(indexed_a, indexed_b, seed) ==
    SortKeys(HashIter(DOMAIN indexed_a, seed))

\* Variant: the keys in the iteration order of the HashSet, not sorted
AllKeys_Unsorted(indexed_a, indexed_b, seed) ==
    HashIter(DOMAIN indexed_a \cup DOMAIN indexed_b, seed)

\* all_keys: the keys of both indexes collected through a HashSet, then sorted
AllKeys(indexed_a, indexed_b, seed) ==
    SortKeys(HashIter(DOMAIN indexed_a \cup DOMAIN indexed_b, seed))

MissingKeyColumns(a_header, b_header, key_columns) ==
    {i \in 1..Len(key_columns) :
        key_columns[i] \notin Range(a_header) \/ key_columns[i] \notin Range(b_header)}

diff_rows_keyed(a_header, a_rows, b_header, b_rows, options, seed) ==
    LET compare_columns == comparison_columns(a_header, b_header, options.header_mode)
        missing == MissingKeyColumns(a_header, b_header, options.key_columns)
        indexed_a == index_rows(a_rows, options.key_columns, "A")
        indexed_b == index_rows(b_rows, options.key_columns, "B")
    IN  IF ~compare_columns.ok THEN compare_columns
        ELSE IF missing # {}
        THEN Err("missing_key_column",
                 [column |-> options.key_columns[CHOOSE i \in missing :
                                                    \A j \in missing : i <= j]])
        ELSE IF ~indexed_a.ok THEN indexed_a
        ELSE IF ~indexed_b.ok THEN indexed_b
        ELSE LET all_keys == AllKeys(indexed_a.val, indexed_b.val, seed)
                 st == KeyedLoop(NewCounters(<<SchemaEvent(a_header, b_header)>>),
                                 all_keys, 1, indexed_a.val, indexed_b.val,
                                 compare_columns.val, options)
             IN  Ok(Append(st.events, StatsEvent(st)))

\* Variant: the row index counts the data rows from one
PositionalRowIndex_FromOne(idx) == idx + 1

\* let row_index = idx + 2: the header is CSV row 1
PositionalRowIndex(idx) == idx + 2

PositionalStep(st, idx, a_rows, b_rows, compare_columns, options) ==
    LET row_index == PositionalRowIndex(idx)
        in_a == idx < Len(a_rows)
        in_b == idx < Len(b_rows)
    IN  IF ~in_a /\ in_b
        THEN [st EXCEPT !.rows_added = @ + 1,
                        !.events = Append(@, [type |-> "added", row_index |-> row_index,
                                              row |-> row_to_value(b_rows[idx + 1][2])])]
        ELSE IF in_a /\ ~in_b
        THEN [st EXCEPT !.rows_removed = @ + 1,
                        !.events = Append(@, [type |-> "removed", row_index |-> row_index,
                                              row |-> row_to_value(a_rows[idx + 1][2])])]
        ELSE IF in_a /\ in_b
        THEN LET row_a == a_rows[idx + 1][2]
                 row_b == b_rows[idx + 1][2]
                 changed_columns == ChangedColumns(compare_columns, row_a, row_b)
             IN  IF changed_columns = <<>>
                 THEN [st EXCEPT !.rows_total_compared = @ + 1,
                                 !.rows_unchanged = @ + 1,
                                 !.events = IF options.emit_unchanged
                                            THEN Append(@, [type |-> "unchanged",
                                                            row_index |-> row_index,
                                                            row |-> row_to_value(row_a)])
                                            ELSE @]
                 ELSE [st EXCEPT !.rows_total_compared = @ + 1,
                                 !.rows_changed = @ + 1,
                                 !.events = Append(@, [type |-> "changed",
                                                       row_index |-> row_index,
                                                       changed |-> changed_columns,
                                                       before |-> row_to_value(row_a),
                                                       after |-> row_to_value(row_b),
                                                       delta |-> DeltaOf(changed_columns,
                                                                         row_a, row_b)])]
        ELSE st

RECURSIVE PositionalLoop(_, _, _, _, _, _, _)
PositionalLoop(st, idx, total_rows, a_rows, b_rows, compare_columns, options) ==
    IF idx >= total_rows THEN st
    ELSE PositionalLoop(PositionalStep(st, idx, a_rows, b_rows, compare_columns, options),
                        idx + 1, total_rows, a_rows, b_rows, compare_columns, options)

diff_rows_positional(a_header, a_rows, b_header, b_rows, options) ==
    LET compare_columns == comparison_columns(a_header, b_header, options.header_mode)
    IN  IF ~compare_columns.ok THEN compare_columns
        ELSE LET total_rows == Max(Len(a_rows), Len(b_rows))
                 st == PositionalLoop(NewCounters(<<SchemaEvent(a_header, b_header)>>),
                                      0, total_rows, a_rows, b_rows,
                                      compare_columns.val, options)
             IN  Ok(Append(st.events, StatsEvent(st)))

diff_csv_files(a_file, b_file, options, seed) ==
    LET a == read_csv_reader(a_file, "A")
        b == read_csv_reader(b_file, "B")
    IN  IF ~a.ok THEN a
        ELSE IF ~b.ok THEN b
        ELSE IF options.key_columns = <<>>
        THEN diff_rows_positional(a.val.header, a.val.rows, b.val.header, b.val.rows, options)
        ELSE diff_rows_keyed(a.val.header, a.val.rows, b.val.header, b.val.rows,
                             options, seed)

-----------------------------------------------------------------------------
(* diffly-engine: spill store                                               *)
(* A store is its partition count and its files: a map from <<side, id>>,   *)
(* the file {side}_{id}.jsonl, to the lines of the file.                    *)

TempDirSpill_new(partitions) ==
    IF partitions = 0
    THEN Err("storage_error", [what |-> "partitions must be greater than zero"])
    ELSE Ok([partitions |-> partitions, files |-> EmptyMap])

\* Variant: the partition id is not checked against the partition count
TempDirSpill_validate_SideOnly(spill, side, partition_id) ==
    IF side # "a" /\ side # "b"
    THEN Err("storage_error", [what |-> "invalid side"])
    ELSE Ok(TRUE)

TempDirSpill_validate(spill, side, partition_id) ==
    IF side # "a" /\ side # "b"
    THEN Err("storage_error", [what |-> "invalid side"])
    ELSE IF partition_id >= spill.partitions
    THEN Err("storage_error", [what |-> "partition out of range"])
    ELSE Ok(TRUE)

partition_path(spill, side, partition_id) ==
    LET valid == TempDirSpill_validate(spill, side, partition_id)
    IN  IF ~valid.ok THEN valid ELSE Ok(<<side, partition_id>>)

\* create(true).append(true), then the line and a newline
append_line(spill, side, partition_id, line) ==
    LET path == partition_path(spill, side, partition_id)
    IN  IF ~path.ok THEN path
        ELSE LET old == IF path.val \in DOMAIN spill.files
                        THEN spill.files[path.val] ELSE <<>>
             IN  Ok([spill EXCEPT !.files = MapInsert(@, path.val, Append(old, line))])

\* fs::read_to_string of the partition file: a file that was never written
\* cannot be read
read_partition(spill, side, partition_id) ==
    LET path == partition_path(spill, side, partition_id)
    IN  IF ~path.ok THEN path
        ELSE IF path.val \notin DOMAIN spill.files
        THEN Err("storage_error", [what |-> "failed to read"])
        ELSE Ok(spill.files[path.val])

\* Variant: a record is routed by its side, not by its key
spill_json_record_BySide(spill, side, key_parts, row) ==
    LET partition_id == IF side = "a" THEN 0 ELSE Max(spill.partitions, 1) - 1
        written == append_line(spill, side, partition_id, row)
    IN  IF ~written.ok THEN written ELSE Ok(<<partition_id, written.val>>)

\* Ok(<<partition id, the store after the write>>)
spill_json_record(spill, side, key_parts, row) ==
    LET partition_id == partition_for_key(key_parts, spill.partitions)
        written == append_line(spill, side, partition_id, row)
    IN  IF ~written.ok THEN written ELSE Ok(<<partition_id, written.val>>)

\* Variant: the row index of the envelope is not restored
DecodeSpillLine_NoRowIndex(line) ==
    IF {"key", "row_index", "row"} \subseteq DOMAIN line
    THEN Ok([key |-> line.key, row_index |-> 0,
             row |-> [c \in DOMAIN line.row |-> line.row[c]]])
    ELSE Err("storage_error", [what |-> "invalid spill record"])

\* A line is parsed back into a SpillRecord; a line that is no envelope
\* (no key, no row_index, no row object) is a storage error.
DecodeSpillLine(line) ==
    IF {"key", "row_index", "row"} \subseteq DOMAIN line
    THEN Ok([key |-> line.key, row_index |-> line.row_index,
             row |-> [c \in DOMAIN line.row |-> line.row[c]]])
    ELSE Err("storage_error", [what |-> "invalid spill record"])

read_spill_records(spill, side, partition_id) ==
    LET path == partition_path(spill, side, partition_id)
    IN  IF ~path.ok THEN path
        ELSE IF path.val \notin DOMAIN spill.files THEN Ok(<<>>)
        ELSE LET content == spill.files[path.val]
                 decoded == [i \in 1..Len(content) |-> DecodeSpillLine(content[i])]
                 bad == {i \in 1..Len(content) : ~decoded[i].ok}
             IN  IF bad # {}
                 THEN decoded[CHOOSE i \in bad : \A j \in bad : i <= j]
                 ELSE Ok([i \in 1..Len(content) |-> decoded[i].val])

-----------------------------------------------------------------------------
(* diffly-engine: partition planner                                         *)

\* Variant: sorted mode compares the sets of names
engine_comparison_columns_BySet(a_header, b_header, header_mode) ==
    IF header_mode = "strict"
    THEN IF a_header # b_header
         THEN Err("header_mismatch", [mode |-> "strict"])
         ELSE Ok(a_header)
    ELSE IF Range(a_header) # Range(b_header)
         THEN Err("header_mismatch", [mode |-> "sorted"])
         ELSE Ok(SortStrings(a_header))

\* the engine's own comparison_columns
engine_comparison_columns(a_header, b_header, header_mode) ==
    IF header_mode = "strict"
    THEN IF a_header # b_header
         THEN Err("header_mismatch", [mode |-> "strict"])
         ELSE Ok(a_header)
    ELSE LET a_sorted == SortStrings(a_header)
             b_sorted == SortStrings(b_header)
         IN  IF a_sorted # b_sorted
             THEN Err("header_mismatch", [mode |-> "sorted"])
             ELSE Ok(a_sorted)

read_header(file, side) ==
    IF Len(file) = 0 THEN Err("empty_file", [side |-> side])
    ELSE LET header == normalize_header(file[1])
             valid == validate_header(header, side)
         IN  IF ~valid.ok THEN valid ELSE Ok(header)

\* header.iter().position(|col| col == key_column), for each key column
key_indices(header, key_columns) ==
    LET missing == {i \in 1..Len(key_columns) : key_columns[i] \notin Range(header)}
    IN  IF missing # {}
        THEN Err("missing_key_column",
                 [column |-> key_columns[CHOOSE i \in missing : \A j \in missing : i <= j]])
        ELSE Ok([i \in 1..Len(key_columns) |->
                    CHOOSE p \in 1..Len(header) :
                        header[p] = key_columns[i]
                        /\ \A q \in 1..(p - 1) : header[q] # key_columns[i]])

record_to_json_object(header, record) == ZipRow(header, record)

\* Variant: the last empty key column is reported
KeyParts_LastEmpty(record, key_columns, key_indexes) ==
    LET empty == {i \in 1..Len(key_indexes) : record[key_indexes[i]] = <<>>}
    IN  IF empty # {}
        THEN Err("missing_key_value",
                 [column |-> key_columns[CHOOSE i \in empty : \A j \in empty : i >= j]])
        ELSE Ok([i \in 1..Min(Len(key_indexes), Len(key_columns)) |->
                    record[key_indexes[i]]])

\* The key parts of a record, or the first key column whose cell is empty
KeyParts(record, key_columns, key_indexes) ==
    LET empty == {i \in 1..Len(key_indexes) : record[key_indexes[i]] = <<>>}
    IN  IF empty # {}
        THEN Err("missing_key_value",
                 [column |-> key_columns[CHOOSE i \in empty : \A j \in empty : i <= j]])
        ELSE Ok([i \in 1..Min(Len(key_indexes), Len(key_columns)) |->
                    record[key_indexes[i]]])

\* Variant: the row is counted for its side but not for its partition
CountSpilledRow_NoPartitionCount(st, spilled) ==
    IF ~spilled.ok THEN spilled
    ELSE Ok([spill |-> spilled.val[2],
             partition_counts |-> st.partition_counts,
             row_count |-> st.row_count + 1])

\* partition_counts[partition_id] += 1; row_count += 1
\* st: [spill, partition_counts (0-based, kept as a sequence), row_count]
CountSpilledRow(st, spilled) ==
    IF ~spilled.ok THEN spilled
    ELSE Ok([spill |-> spilled.val[2],
             partition_counts |->
                 [st.partition_counts EXCEPT ![spilled.val[1] + 1] = @ + 1],
             row_count |-> st.row_count + 1])

\* the envelope of a row with its key parts is written to the store
SpillRow(record, row_index, side_tag, side_label, header, st, key_parts) ==
    IF ~key_parts.ok
    THEN Err("missing_key_value",
             [side |-> side_label, row_index |-> row_index,
              column |-> key_parts.info.column])
    ELSE CountSpilledRow(st,
             spill_json_record(st.spill, side_tag, key_parts.val,
                               [key |-> key_parts.val, row_index |-> row_index,
                                row |-> record_to_json_object(header, record)]))

\* One data row of one side: width check, key parts, envelope, spill write.
PartitionRow(record, row_index, side_tag, side_label, header, key_columns, key_indexes, st) ==
    IF Len(record) # Len(header)
    THEN Err("row_width_mismatch",
             [side |-> side_label, row_index |-> row_index,
              expected |-> Len(header), got |-> Len(record)])
    ELSE SpillRow(record, row_index, side_tag, side_label, header, st,
                  KeyParts(record, key_columns, key_indexes))

\* The streaming pass over the data rows of one side, from CSV row i on; st
\* is Ok(accumulators) or the error that ended the pass.
RECURSIVE PartitionRowsFrom(_, _, _, _, _, _, _, _)
PartitionRowsFrom(file, i, side_tag, side_label, header, key_columns, key_indexes, st) ==
    IF ~st.ok THEN st
    ELSE IF i > Len(file) THEN st
    ELSE PartitionRowsFrom(file, i + 1, side_tag, side_label, header, key_columns,
             key_indexes,
             PartitionRow(file[i], i, side_tag, side_label, header, key_columns,
                          key_indexes, st.val))

partition_one_side(file, side_tag, side_label, header, key_columns, key_indexes, spill) ==
    IF Len(file) = 0 THEN Err("empty_file", [side |-> side_label])
    ELSE PartitionRowsFrom(file, 2, side_tag, side_label, header, key_columns, key_indexes,
                           Ok([spill |-> spill,
                               partition_counts |-> [p \in 1..spill.partitions |-> 0],
                               row_count |-> 0]))

\* the manifest, once both sides are streamed
BuildManifest(columns_a, columns_b, compare_columns, side_a, side_b) ==
    IF ~side_b.ok THEN side_b
    ELSE Ok([spill |-> side_b.val.spill,
             columns_a |-> columns_a,
             columns_b |-> columns_b,
             compare_columns |-> compare_columns,
             row_count_a |-> side_a.row_count,
             row_count_b |-> side_b.val.row_count,
             partition_rows_a |-> side_a.partition_counts,
             partition_rows_b |-> side_b.val.partition_counts])

\* side B is streamed into the store that holds side A
PartitionSideB(b_file, options, columns_a, columns_b, compare_columns, key_indices_b, side_a) ==
    IF ~side_a.ok THEN side_a
    ELSE BuildManifest(columns_a, columns_b, compare_columns, side_a.val,
             partition_one_side(b_file, "b", "B", columns_b, options.key_columns,
                                key_indices_b, side_a.val.spill))

\* side A is streamed into the new store
PartitionSideA(a_file, b_file, options, columns_a, columns_b, compare_columns, key_indices_a, key_indices_b, spill) ==
    IF ~spill.ok THEN spill
    ELSE PartitionSideB(b_file, options, columns_a, columns_b, compare_columns,
             key_indices_b,
             partition_one_side(a_file, "a", "A", columns_a, options.key_columns,
                                key_indices_a, spill.val))

\* key_indices of both sides, then the store
PlanKeyIndices(a_file, b_file, options, partitions, columns_a, columns_b, compare_columns, key_indices_a, key_indices_b) ==
    IF ~compare_columns.ok THEN compare_columns
    ELSE IF ~key_indices_a.ok THEN key_indices_a
    ELSE IF ~key_indices_b.ok THEN key_indices_b
    ELSE PartitionSideA(a_file, b_file, options, columns_a, columns_b,
                        compare_columns.val, key_indices_a.val, key_indices_b.val,
                        TempDirSpill_new(partitions))

\* the preflight pass over the two headers
PlanHeaders(a_file, b_file, options, partitions, columns_a, columns_b) ==
    IF ~columns_a.ok THEN columns_a
    ELSE IF ~columns_b.ok THEN columns_b
    ELSE PlanKeyIndices(a_file, b_file, options, partitions, columns_a.val, columns_b.val,
             engine_comparison_columns(columns_a.val, columns_b.val, options.header_mode),
             key_indices(columns_a.val, options.key_columns),
             key_indices(columns_b.val, options.key_columns))

partition_inputs_to_spill(a_file, b_file, options, partitions) ==
    PlanHeaders(a_file, b_file, options, partitions,
                read_header(a_file, "A"), read_header(b_file, "B"))

\* whether the planner got as far as TempDirSpill::new(partitions) and the
\* temporary directory was created
SpillDirCreated(a_file, b_file, options, partitions) ==
    LET columns_a == read_header(a_file, "A")
        columns_b == read_header(b_file, "B")
    IN  /\ columns_a.ok
        /\ columns_b.ok
        /\ engine_comparison_columns(columns_a.val, columns_b.val, options.header_mode).ok
        /\ key_indices(columns_a.val, options.key_columns).ok
        /\ key_indices(columns_b.val, options.key_columns).ok
        /\ TempDirSpill_new(partitions).ok

\* Variant: the store outlives a failed planner
SpillDirAfterPlan_Leaks(created, planned_ok) ==
    IF created THEN "held" ELSE "none"

\* The temporary directory when the planner returns. The store owns it
\* (root: TempDir); the store is a local of the planner that moves into the
\* manifest on success and goes out of scope on every early return, and the
\* directory is removed when its owner is dropped.
SpillDirAfterPlan(created, planned_ok) ==
    IF ~created THEN "none"
    ELSE IF planned_ok THEN "held"
    ELSE "removed"

-----------------------------------------------------------------------------
(* diffly-engine: per-partition diff                                        *)

RECURSIVE IndexSpillFrom(_, _, _, _, _)
IndexSpillFrom(records, key_columns, side, i, indexed) ==
    IF i > Len(records) THEN Ok(indexed)
    ELSE LET record == records[i]
         IN  IF record.key \in DOMAIN indexed
             THEN Err("duplicate_key",
                      [side |-> side, key |-> key_object(key_columns, record.key),
                       prior_row |-> indexed[record.key].row_index,
                       row_index |-> record.row_index])
             ELSE IndexSpillFrom(records, key_columns, side, i + 1,
                                 MapInsert(indexed, record.key, record))

index_spill_records(records, key_columns, side) ==
    IndexSpillFrom(records, key_columns, side, 1, EmptyMap)

PartitionStep(st, key, indexed_a, indexed_b, compare_columns, options) ==
    LET key_obj == key_object(options.key_columns, key)
        in_a == key \in DOMAIN indexed_a
        in_b == key \in DOMAIN indexed_b
    IN  IF ~in_a /\ in_b
        THEN [st EXCEPT !.rows_added = @ + 1,
                        !.events = Append(@, [type |-> "added", key |-> key_obj,
                                              row |-> row_to_value(indexed_b[key].row)])]
        ELSE IF in_a /\ ~in_b
        THEN [st EXCEPT !.rows_removed = @ + 1,
                        !.events = Append(@, [type |-> "removed", key |-> key_obj,
                                              row |-> row_to_value(indexed_a[key].row)])]
        ELSE IF in_a /\ in_b
        THEN LET row_a == indexed_a[key].row
                 row_b == indexed_b[key].row
                 changed_columns == ChangedColumns(compare_columns, row_a, row_b)
             IN  IF changed_columns = <<>>
                 THEN [st EXCEPT !.rows_total_compared = @ + 1,
                                 !.rows_unchanged = @ + 1,
                                 !.events = IF options.emit_unchanged
                                            THEN Append(@, [type |-> "unchanged",
                                                            key |-> key_obj,
                                                            row |-> row_to_value(row_a)])
                                            ELSE @]
                 ELSE [st EXCEPT !.rows_total_compared = @ + 1,
                                 !.rows_changed = @ + 1,
                                 !.events = Append(@, [type |-> "changed",
                                                       key |-> key_obj,
                                                       changed |-> changed_columns,
                                                       before |-> row_to_value(row_a),
                                                       after |-> row_to_value(row_b),
                                                       delta |-> DeltaOf(changed_columns,
                                                                         row_a, row_b)])]
        ELSE st

RECURSIVE PartitionKeysLoop(_, _, _, _, _, _, _)
PartitionKeysLoop(st, all_keys, i, indexed_a, indexed_b, compare_columns, options) ==
    IF i > Len(all_keys) THEN st
    ELSE PartitionKeysLoop(
             PartitionStep(st, all_keys[i], indexed_a, indexed_b, compare_columns, options),
             all_keys, i + 1, indexed_a, indexed_b, compare_columns, options)

\* index_spill_records(read_spill_records(..)?, ..)
IndexRecords(records, key_columns, side) ==
    IF ~records.ok THEN records
    ELSE index_spill_records(records.val, key_columns, side)

IndexedSide(manifest, side_tag, side_label, partition_id, options) ==
    IndexRecords(read_spill_records(manifest.spill, side_tag, partition_id),
                 options.key_columns, side_label)

\* the keys of one partition, sorted, and one step for each
DiffIndexed(st, manifest, options, seed, indexed_a, indexed_b) ==
    IF ~indexed_a.ok THEN indexed_a
    ELSE IF ~indexed_b.ok THEN indexed_b
    ELSE Ok(PartitionKeysLoop(st, AllKeys(indexed_a.val, indexed_b.val, seed), 1,
                              indexed_a.val, indexed_b.val,
                              manifest.compare_columns, options))

DiffPartition(st, partition_id, manifest, options, seed) ==
    DiffIndexed(st, manifest, options, seed,
                IndexedSide(manifest, "a", "A", partition_id, options),
                IndexedSide(manifest, "b", "B", partition_id, options))

\* for partition_id in 0..partitions; st is Ok(accumulators) or the first error
RECURSIVE PartitionsLoop(_, _, _, _, _)
PartitionsLoop(st, partition_id, manifest, options, seed) ==
    IF ~st.ok THEN st
    ELSE IF partition_id >= manifest.spill.partitions THEN st
    ELSE PartitionsLoop(DiffPartition(st.val, partition_id, manifest, options, seed),
                        partition_id + 1, manifest, options, seed)

\* the stats event closes the list
FinishEvents(st) ==
    IF ~st.ok THEN st ELSE Ok(Append(st.val.events, StatsEvent(st.val)))

diff_partitioned_from_manifest(manifest, options, seed) ==
    FinishEvents(PartitionsLoop(
        Ok(NewCounters(<<SchemaEvent(manifest.columns_a, manifest.columns_b)>>)),
        0, manifest, options, seed))

-----------------------------------------------------------------------------
(* diffly-engine: run driver                                                *)

\* the frame reports one event more than were delivered
ProgressEvent_OneAhead(events_done, events_total) ==
    [type |-> "progress", phase |-> "emit_events",
     events_done |-> events_done + 1, events_total |-> events_total]

ProgressEvent(events_done, events_total) ==
    [type |-> "progress", phase |-> "emit_events",
     events_done |-> events_done, events_total |-> events_total]

EngineRunConfig_default ==
    [emit_progress |-> FALSE, progress_interval_events |-> 1000]

\* the frame after the final event left out
ProgressDue_IntervalOnly(run_config, done, total_events) ==
    LET interval == Max(run_config.progress_interval_events, 1)
    IN  run_config.emit_progress /\ done % interval = 0

\* whether a progress frame follows the delivery of event number `done`
ProgressDue(run_config, done, total_events) ==
    LET interval == Max(run_config.progress_interval_events, 1)
    IN  run_config.emit_progress /\ (done = total_events \/ done % interval = 0)

\* The events the driver plans to deliver
PlannedEvents(a_path, b_path, options, run_config, seed) ==
    diff_csv_files(a_path, b_path, options, seed)

-----------------------------------------------------------------------------
(* State                                                                    *)

VARIABLES
    a_file,      \* the CSV file of side A: its records, header first
    b_file,      \* the CSV file of side B
    runs,        \* the calls of the diff library made so far, with their results
    run_options, \* driver: the DiffOptions of the run
    run_config,  \* driver: the EngineRunConfig as the caller built it
    pc,          \* driver: position in run_keyed_to_sink_with_config
    events,      \* driver: the event list computed by the diff
    idx,         \* driver: number of events of the list handed to the sink
    sink,        \* the events the sink accepted, in order
    sink_calls,  \* number of calls of sink.on_event
    probes,      \* number of consultations of the cancellation probe
    result       \* driver: None while running, then the result of the run

vars == <<a_file, b_file, runs, run_options, run_config, pc, events, idx,
          sink, sink_calls, probes, result>>

libVars == <<runs>>
runVars == <<run_options, run_config, pc, events, idx, sink, sink_calls, probes, result>>

None == [none |-> TRUE]

\* Input files: a header and up to n data rows over the cell values of its columns
IdValues == {S_10, S_3}
NameValues == {S_x, S_y}
CellValues(column) == IF column = S_id THEN IdValues ELSE NameValues

RecordsOf(header) ==
    {r \in [1..Len(header) -> IdValues \cup NameValues] :
        \A i \in 1..Len(header) : r[i] \in CellValues(header[i])}

FilesOf(header, n) ==
    UNION {{<<header>> \o rows : rows \in [1..k -> RecordsOf(header)]} : k \in 0..n}

HeadersA == {<<S_id, S_name>>}
HeadersB == {<<S_id, S_name>>, <<S_name, S_id>>}

KeyColumnChoices == {<<>>, <<S_id>>, <<S_id, S_name>>}
OptionChoices ==
    [key_columns : KeyColumnChoices, header_mode : {"strict", "sorted"},
     emit_unchanged : BOOLEAN]

RunIdle ==
    /\ run_options = None
    /\ run_config = None
    /\ pc = "idle"
    /\ events = <<>>
    /\ idx = 0
    /\ sink = <<>>
    /\ sink_calls = 0
    /\ probes = 0
    /\ result = None

Init ==
    /\ a_file \in UNION {FilesOf(h, MaxRows) : h \in HeadersA}
    /\ b_file \in UNION {FilesOf(h, MaxRows) : h \in HeadersB}
    /\ runs = <<>>
    /\ RunIdle

-----------------------------------------------------------------------------------------------------------------------------------------------------
(* Calls of the diff library on the two input files                         *)

CallDiffCsvFiles ==
    \E options \in OptionChoices, seed \in HashSeeds :
        /\ runs = <<>>
        /\ runs' = <<[api |-> "diff_csv_files", options |-> options, partitions |-> 0,
                      swap |-> FALSE, stage |-> "done", manifest |-> None,
                      spill_dir |-> "none",
                      out |-> diff_csv_files(a_file, b_file, options, seed)]>>
        /\ UNCHANGED <<a_file, b_file, runVars>>

\* The run record after partition_inputs_to_spill: on success the caller holds
\* the manifest (and the spill directory with it); on failure the store is
\* dropped and the error is the outcome of the run. spill_dir is the state of
\* the temporary directory: "none" (never created), "held" or "removed".
PlannedRun(a_path, b_path, options, partitions, swap) ==
    LET manifest == partition_inputs_to_spill(a_path, b_path, options, partitions)
    IN  [api |-> "partitioned", options |-> options, partitions |-> partitions,
         swap |-> swap,
         stage |-> IF manifest.ok THEN "planned" ELSE "done",
         manifest |-> IF manifest.ok THEN manifest.val ELSE None,
         spill_dir |-> SpillDirAfterPlan(
                           SpillDirCreated(a_path, b_path, options, partitions),
                           manifest.ok),
         out |-> IF manifest.ok THEN None ELSE manifest]

CallPartitionInputsToSpill ==
    \E options \in OptionChoices, partitions \in 1..MaxPartitions :
        /\ runs = <<>>
        /\ runs' = <<PlannedRun(a_file, b_file, options, partitions, FALSE)>>
        /\ UNCHANGED <<a_file, b_file, runVars>>

\* diff_partitioned_from_manifest, after which the manifest is released
CallDiffPartitionedFromManifest ==
    \E seed \in HashSeeds :
        /\ runs # <<>>
        /\ runs[Len(runs)].stage = "planned"
        /\ LET run == runs[Len(runs)]
           IN  runs' = [runs EXCEPT ![Len(runs)] =
                   [run EXCEPT !.stage = "done",
                               !.manifest = None,
                               !.spill_dir = "removed",
                               !.out = diff_partitioned_from_manifest(run.manifest,
                                                                      run.options, seed)]]
        /\ UNCHANGED <<a_file, b_file, runVars>>

Next ==
    \/ CallDiffCsvFiles
    \/ CallPartitionInputsToSpill
    \/ CallDiffPartitionedFromManifest

Spec == Init /\ [][Next]_vars

-----------------------------------------------------------------------------
(* A second call with the options and the partition count of the first one, *)
(* on the same two paths or with the two paths exchanged.                   *)

LeftFile(swap) == IF swap THEN b_file ELSE a_file
RightFile(swap) == IF swap THEN a_file ELSE b_file

FirstDone(api) ==
    /\ Len(runs) = 1
    /\ runs[1].stage = "done"
    /\ runs[1].api = api

RepeatDiffCsvFiles ==
    \E swap \in BOOLEAN, seed \in HashSeeds :
        /\ FirstDone("diff_csv_files")
        /\ runs' = Append(runs,
               [runs[1] EXCEPT !.swap = swap,
                               !.out = diff_csv_files(LeftFile(swap), RightFile(swap),
                                                      runs[1].options, seed)])
        /\ UNCHANGED <<a_file, b_file, runVars>>

RepeatPartitionInputsToSpill ==
    \E swap \in BOOLEAN :
        /\ FirstDone("partitioned")
        /\ runs' = Append(runs,
               PlannedRun(LeftFile(swap), RightFile(swap), runs[1].options,
                          runs[1].partitions, swap))
        /\ UNCHANGED <<a_file, b_file, runVars>>

NextRepeat ==
    \/ Next
    \/ RepeatDiffCsvFiles
    \/ RepeatPartitionInputsToSpill

SpecRepeat == Init /\ [][NextRepeat]_vars

-----------------------------------------------------------------------------
(* Inputs that need not be valid: empty files, empty cells, ragged rows,    *)
(* duplicate and differing headers. Either both files are wide and short,   *)
(* or one file is wide with MaxRows rows and the other one is plain.        *)

WideCells == {S_3, S_empty}
WideRecords == UNION {[1..w -> WideCells] : w \in 1..MaxWidth}
WideHeaders == {<<S_id, S_name>>, <<S_name, S_id>>, <<S_id, S_id>>, <<S_id>>}
\* headers without rows, for the reconciliation of headers alone
BareHeaders == {<<S_id, S_id, S_name>>, <<S_id, S_name, S_name>>}

WideFilesOf(header, n) ==
    UNION {{<<header>> \o rows : rows \in [1..k -> WideRecords]} : k \in 0..n}
ShortWideFiles ==
    {<<>>} \cup {<<h>> : h \in BareHeaders}
           \cup UNION {WideFilesOf(h, MaxPairRows) : h \in WideHeaders}
LongWideFiles ==
    {<<h>> \o rows : h \in {<<S_id, S_name>>, <<S_name, S_id>>},
                     rows \in [1..MaxRows -> WideRecords]}
PlainFiles ==
    {<<<<S_id, S_name>>>>,
     <<<<S_id, S_name>>, <<S_3, S_3>>>>,
     <<<<S_id, S_name>>, <<S_empty, S_3>>>>}

InitInputs ==
    /\ \/ a_file \in ShortWideFiles /\ b_file \in ShortWideFiles
       \/ a_file \in LongWideFiles /\ b_file \in PlainFiles
       \/ a_file \in PlainFiles /\ b_file \in LongWideFiles
    /\ runs = <<>>
    /\ RunIdle

\* comparison_columns of the core and of the engine on the two headers
CallComparisonColumns ==
    \E header_mode \in {"strict", "sorted"} :
        /\ runs = <<>>
        /\ Len(a_file) > 0 /\ Len(b_file) > 0
        /\ runs' = <<[api |-> "comparison_columns", header_mode |-> header_mode,
                      stage |-> "done", manifest |-> None, spill_dir |-> "none",
                      out |-> comparison_columns(a_file[1], b_file[1], header_mode),
                      engine_out |-> engine_comparison_columns(a_file[1], b_file[1],
                                                               header_mode)]>>
        /\ UNCHANGED <<a_file, b_file, runVars>>

NextInputs ==
    \/ Next
    \/ CallComparisonColumns

SpecInputs == InitInputs /\ [][NextInputs]_vars

-----------------------------------------------------------------------------
(* run_keyed_to_sink_with_config, one action per interaction with the sink  *)
(* or the cancellation probe                                                *)

\* The run configurations callers build: the conformance harness and the CLI
\* set partition_count next to the two fields the engine declares.
PartitionCountChoices == {None} \cup {[some |-> MaxPartitions]}
RunConfigChoices ==
    [emit_progress : BOOLEAN, progress_interval_events : 1..MaxInterval,
     partition_count : PartitionCountChoices]

InitRun ==
    /\ a_file \in UNION {FilesOf(h, MaxRunRows) : h \in HeadersA}
    /\ b_file \in UNION {FilesOf(h, MaxRunRows) : h \in HeadersB}
    /\ runs = <<>>
    /\ RunIdle

EngineOk == [kind |-> "Ok"]
EngineError_Diff(err) == [kind |-> "Diff", code |-> err.code, info |-> err.info]
EngineError_Cancelled == [kind |-> "Cancelled"]
EngineError_Sink == [kind |-> "Sink"]

\* Variant: the probe is consulted before the diff is computed
RunStart_ProbesFirst ==
    \E options \in OptionChoices, config \in RunConfigChoices, seed \in HashSeeds :
        /\ pc = "idle"
        /\ run_options' = options
        /\ run_config' = config
        /\ probes' = probes + 1
        /\ LET planned == PlannedEvents(a_file, b_file, options, config, seed)
           IN  IF ~planned.ok
               THEN /\ result' = EngineError_Diff(planned)
                    /\ pc' = "done"
                    /\ events' = <<>>
               ELSE /\ result' = None
                    /\ pc' = IF config.emit_progress THEN "progress0" ELSE "probe"
                    /\ events' = planned.val
        /\ UNCHANGED <<a_file, b_file, runs, idx, sink, sink_calls>>

\* let events = diff_csv_files(..).map_err(EngineError::Diff)?; then the
\* initial progress frame is due, or the loop starts
RunStart ==
    \E options \in OptionChoices, config \in RunConfigChoices, seed \in HashSeeds :
        /\ pc = "idle"
        /\ run_options' = options
        /\ run_config' = config
        /\ LET planned == PlannedEvents(a_file, b_file, options, config, seed)
           IN  IF ~planned.ok
               THEN /\ result' = EngineError_Diff(planned)
                    /\ pc' = "done"
                    /\ events' = <<>>
               ELSE /\ result' = None
                    /\ pc' = IF config.emit_progress THEN "progress0" ELSE "probe"
                    /\ events' = planned.val
        /\ UNCHANGED <<a_file, b_file, runs, idx, sink, sink_calls, probes>>

\* Variant: the loop ends one event early
Continue_StopsEarly(done) ==
    IF done >= Len(events) - 1
    THEN pc' = "done" /\ result' = EngineOk
    ELSE pc' = "probe" /\ result' = result

\* where the run goes once `done` events are through: the loop ends after
\* the last event and the run returns Ok(())
Continue(done) ==
    IF done = Len(events)
    THEN pc' = "done" /\ result' = EngineOk
    ELSE pc' = "probe" /\ result' = result

\* emit_progress(sink, events_done, events_total): one call of the sink
EmitProgressFrame(accepted) ==
    /\ sink_calls' = sink_calls + 1
    /\ IF accepted
       THEN sink' = Append(sink, ProgressEvent(idx, Len(events)))
       ELSE sink' = sink /\ pc' = "done" /\ result' = EngineError_Sink

EmitInitialProgress ==
    \E accepted \in BOOLEAN :
        /\ pc = "progress0"
        /\ EmitProgressFrame(accepted)
        /\ accepted => (pc' = "probe" /\ result' = result)
        /\ UNCHANGED <<a_file, b_file, runs, run_options, run_config, events, idx, probes>>

\* the probe is consulted after the event went to the sink
CancelProbe_DeliversFirst ==
    \E cancelled \in BOOLEAN :
        /\ pc = "probe"
        /\ idx < Len(events)
        /\ probes' = probes + 1
        /\ IF cancelled
           THEN /\ pc' = "done" /\ result' = EngineError_Cancelled
                /\ sink' = Append(sink, events[idx + 1])
           ELSE pc' = "deliver" /\ result' = result /\ sink' = sink
        /\ UNCHANGED <<a_file, b_file, runs, run_options, run_config, events, idx,
                       sink_calls>>

\* if cancel_check.cancelled() { return Err(EngineError::Cancelled) }
CancelProbe ==
    \E cancelled \in BOOLEAN :
        /\ pc = "probe"
        /\ idx < Len(events)
        /\ probes' = probes + 1
        /\ IF cancelled
           THEN pc' = "done" /\ result' = EngineError_Cancelled
           ELSE pc' = "deliver" /\ result' = result
        /\ UNCHANGED <<a_file, b_file, runs, run_options, run_config, events, idx,
                       sink, sink_calls>>

\* Variant: an event the sink refused is offered again
SinkOnEvent_Retries ==
    \E accepted \in BOOLEAN :
        /\ pc = "deliver"
        /\ sink_calls < 2 * Len(events)
        /\ sink_calls' = sink_calls + 1
        /\ IF accepted
           THEN /\ sink' = Append(sink, events[idx + 1])
                /\ idx' = idx + 1
                /\ IF ProgressDue(run_config, idx + 1, Len(events))
                   THEN pc' = "progress" /\ result' = result
                   ELSE Continue(idx + 1)
           ELSE /\ sink' = sink
                /\ idx' = idx
                /\ pc' = "deliver"
                /\ result' = result
        /\ UNCHANGED <<a_file, b_file, runs, run_options, run_config, events, probes>>

\* sink.on_event(&event).map_err(EngineError::Sink)?
SinkOnEvent ==
    \E accepted \in BOOLEAN :
        /\ pc = "deliver"
        /\ sink_calls' = sink_calls + 1
        /\ IF accepted
           THEN /\ sink' = Append(sink, events[idx + 1])
                /\ idx' = idx + 1
                /\ IF ProgressDue(run_config, idx + 1, Len(events))
                   THEN pc' = "progress" /\ result' = result
                   ELSE Continue(idx + 1)
           ELSE /\ sink' = sink
                /\ idx' = idx
                /\ pc' = "done"
                /\ result' = EngineError_Sink
        /\ UNCHANGED <<a_file, b_file, runs, run_options, run_config, events, probes>>

EmitLoopProgress ==
    \E accepted \in BOOLEAN :
        /\ pc = "progress"
        /\ EmitProgressFrame(accepted)
        /\ accepted => Continue(idx)
        /\ UNCHANGED <<a_file, b_file, runs, run_options, run_config, events, idx, probes>>

NextRun ==
    \/ RunStart
    \/ EmitInitialProgress
    \/ CancelProbe
    \/ SinkOnEvent
    \/ EmitLoopProgress

SpecRun == InitRun /\ [][NextRun]_vars

\* The run driver on inputs that need not be valid: one file is wide, the
\* other one plain
InitRunInputs ==
    /\ \/ a_file \in ShortWideFiles \cup LongWideFiles /\ b_file \in PlainFiles
       \/ a_file \in PlainFiles /\ b_file \in ShortWideFiles \cup LongWideFiles
    /\ runs = <<>>
    /\ RunIdle

SpecRunInputs == InitRunInputs /\ [][NextRun]_vars

-----------------------------------------------------------------------------
(* The spill store on its own: a store is created and then used through its *)
(* operations, with sides and partition ids inside and outside its domain.  *)
(* runs holds the latest operation: its arguments, the store before and     *)
(* after it (None while there is no store) and its result.                  *)

MaxLines == 2
SideChoices == {"a", "b", "c"}
PartitionIdChoices == 0..MaxPartitions
SpillLines ==
    {[key |-> <<S_3>>, row_index |-> i, row |-> [c \in {S_id} |-> S_3]] : i \in {2, 3}}
RECURSIVE LinesIn(_, _)
LinesIn(files, paths) ==
    IF paths = {} THEN 0
    ELSE LET path == CHOOSE q \in paths : TRUE
         IN  Len(files[path]) + LinesIn(files, paths \ {path})
StoredLines(spill) == LinesIn(spill.files, DOMAIN spill.files)

InitSpill ==
    /\ a_file = <<>>
    /\ b_file = <<>>
    /\ runs = <<>>
    /\ RunIdle

SpillOperation(op, side, partition_id, before, out, after) ==
    [api |-> "TempDirSpill", op |-> op, side |-> side, partition_id |-> partition_id,
     line |-> None, before |-> before, out |-> out, spill |-> after]

\* TempDirSpill::new(partitions)
CallTempDirSpillNew ==
    \E partitions \in 0..MaxPartitions :
        /\ runs = <<>>
        /\ LET out == TempDirSpill_new(partitions)
           IN  runs' = <<SpillOperation("new", "", partitions, None, out,
                                        IF out.ok THEN out.val ELSE None)>>
        /\ UNCHANGED <<a_file, b_file, runVars>>

HasStore == runs # <<>> /\ runs[1].spill # None

CallPartitionPath ==
    \E side \in SideChoices, partition_id \in PartitionIdChoices :
        /\ HasStore
        /\ runs' = <<SpillOperation("partition_path", side, partition_id, runs[1].spill,
                                    partition_path(runs[1].spill, side, partition_id),
                                    runs[1].spill)>>
        /\ UNCHANGED <<a_file, b_file, runVars>>

CallAppendLine ==
    \E side \in SideChoices, partition_id \in PartitionIdChoices, line \in SpillLines :
        /\ HasStore
        /\ StoredLines(runs[1].spill) < MaxLines
        /\ LET out == append_line(runs[1].spill, side, partition_id, line)
           IN  runs' = <<[SpillOperation("append_line", side, partition_id, runs[1].spill,
                                         IF out.ok THEN Ok(TRUE) ELSE out,
                                         IF out.ok THEN out.val ELSE runs[1].spill)
                           EXCEPT !.line = line]>>
        /\ UNCHANGED <<a_file, b_file, runVars>>

CallReadPartition ==
    \E side \in SideChoices, partition_id \in PartitionIdChoices :
        /\ HasStore
        /\ runs' = <<SpillOperation("read_partition", side, partition_id, runs[1].spill,
                                    read_partition(runs[1].spill, side, partition_id),
                                    runs[1].spill)>>
        /\ UNCHANGED <<a_file, b_file, runVars>>

CallReadSpillRecords ==
    \E side \in SideChoices, partition_id \in PartitionIdChoices :
        /\ HasStore
        /\ runs' = <<SpillOperation("read_spill_records", side, partition_id,
                                    runs[1].spill,
                                    read_spill_records(runs[1].spill, side, partition_id),
                                    runs[1].spill)>>
        /\ UNCHANGED <<a_file, b_file, runVars>>

NextSpill ==
    \/ CallTempDirSpillNew
    \/ CallPartitionPath
    \/ CallAppendLine
    \/ CallReadPartition
    \/ CallReadSpillRecords

SpecSpill == InitSpill /\ [][NextSpill]_vars

-----------------------------------------------------------------------------
(* The key hasher on its own: partition_for_key is applied to a key and a   *)
(* partition count, and then once more to the same arguments. runs holds    *)
(* the calls: the arguments, the hash of the key and the partition.         *)

MaxPartLen == 2
MaxKeyParts == 2
MaxHashPartitions == 3
HashAlphabet == {97, 98, 99}
S_123 == <<49, 50, 51>>
S_eu == <<101, 117>>
TestPartitions == 256
HashStrings == UNION {[1..n -> HashAlphabet] : n \in 0..MaxPartLen}
HashKeys == UNION {[1..n -> HashStrings] : n \in 0..MaxKeyParts} \cup {<<S_123, S_eu>>}
HashPartitionChoices == 0..MaxHashPartitions \cup {TestPartitions}

InitHash ==
    /\ a_file = <<>>
    /\ b_file = <<>>
    /\ runs = <<>>
    /\ RunIdle

HashCall(key_parts, partitions) ==
    [api |-> "partition_for_key", key_parts |-> key_parts, partitions |-> partitions,
     hash |-> stable_key_hash(key_parts),
     out |-> partition_for_key(key_parts, partitions)]

CallPartitionForKey ==
    \E key_parts \in HashKeys, partitions \in HashPartitionChoices :
        /\ runs = <<>>
        /\ runs' = <<HashCall(key_parts, partitions)>>
        /\ UNCHANGED <<a_file, b_file, runVars>>

CallPartitionForKeyAgain ==
    /\ Len(runs) = 1
    /\ runs' = Append(runs, HashCall(runs[1].key_parts, runs[1].partitions))
    /\ UNCHANGED <<a_file, b_file, runVars>>

NextHash ==
    \/ CallPartitionForKey
    \/ CallPartitionForKeyAgain

SpecHash == InitHash /\ [][NextHash]_vars

-----------------------------------------------------------------------------
(* Vocabulary of the properties, defined on the input files themselves      *)

IsBody(e) == e.type \in {"added", "removed", "changed", "unchanged"}
IsProgress(e) == e.type = "progress"
NotProgress(e) == e.type # "progress"
Body(evts) == SelectSeq(evts, IsBody)
NonProgress(evts) == SelectSeq(evts, NotProgress)
CountType(evts, type) == Cardinality({i \in 1..Len(evts) : evts[i].type = type})
StatsOf(evts) == evts[Len(evts)]

Occurrences(evts, e) == Cardinality({i \in 1..Len(evts) : evts[i] = e})
SameBag(s, t) ==
    /\ Len(s) = Len(t)
    /\ \A e \in Range(s) \cup Range(t) : Occurrences(s, e) = Occurrences(t, e)

\* byte-wise order of strings and part-wise order of key tuples
StrBefore(s, t) ==
    \E i \in 1..(Min(Len(s), Len(t)) + 1) :
        /\ \A j \in 1..(i - 1) : s[j] = t[j]
        /\ \/ i <= Len(s) /\ i <= Len(t) /\ s[i] < t[i]
           \/ i = Len(s) + 1 /\ i <= Len(t)

TupleBefore(k1, k2) ==
    \E i \in 1..(Min(Len(k1), Len(k2)) + 1) :
        /\ \A j \in 1..(i - 1) : k1[j] = k2[j]
        /\ \/ i <= Len(k1) /\ i <= Len(k2) /\ StrBefore(k1[i], k2[i])
           \/ i = Len(k1) + 1 /\ i <= Len(k2)

ColumnAt(header, column) == CHOOSE i \in 1..Len(header) : header[i] = column
CellOf(file, i, column) == file[i][ColumnAt(file[1], column)]
RecordKey(file, i, key_columns) ==
    [j \in 1..Len(key_columns) |-> CellOf(file, i, key_columns[j])]
KeysOfFile(file, key_columns) == {RecordKey(file, i, key_columns) : i \in 2..Len(file)}
DataRowCount(file) == Len(file) - 1

WellFormed(file) ==
    /\ Len(file) > 0
    /\ \A i, j \in 1..Len(file[1]) : file[1][i] = file[1][j] => i = j
    /\ \A i \in 2..Len(file) : Len(file[i]) = Len(file[1])

Reconcilable(a, b, header_mode) ==
    IF header_mode = "strict" THEN a[1] = b[1]
    ELSE Len(a[1]) = Len(b[1]) /\ Range(a[1]) = Range(b[1])

ValidPositional(a, b, options) ==
    /\ WellFormed(a) /\ WellFormed(b)
    /\ Reconcilable(a, b, options.header_mode)
    /\ options.key_columns = <<>>

ValidKeyed(a, b, options) ==
    /\ WellFormed(a) /\ WellFormed(b)
    /\ Reconcilable(a, b, options.header_mode)
    /\ options.key_columns # <<>>
    /\ Range(options.key_columns) \subseteq Range(a[1]) \cap Range(b[1])
    /\ \A f \in {a, b} :
          /\ \A i \in 2..Len(f) : \A c \in Range(options.key_columns) : CellOf(f, i, c) # <<>>
          /\ \A i, j \in 2..Len(f) :
                RecordKey(f, i, options.key_columns) = RecordKey(f, j, options.key_columns)
                    => i = j

EventKey(e, key_columns) == [j \in 1..Len(key_columns) |-> e.key[key_columns[j]]]

\* the files a run was given as A and as B
RunA(r) == IF r.swap THEN b_file ELSE a_file
RunB(r) == IF r.swap THEN a_file ELSE b_file
Finished(r) == r.stage = "done"
Succeeded(r) == r.stage = "done" /\ r.out.ok
RunSet == {runs[i] : i \in 1..Len(runs)}

\* the partitioned path as one function of the inputs
PartitionedDiff(a, b, options, partitions, seed) ==
    LET manifest == partition_inputs_to_spill(a, b, options, partitions)
    IN  IF ~manifest.ok THEN manifest
        ELSE diff_partitioned_from_manifest(manifest.val, options, seed)

RunSucceeded == pc = "done" /\ result.kind = "Ok"

-----------------------------------------------------------------------------
(* Properties of the run driver (SpecRun)                                   *)

\* C1 (as stated): in every successful run, with emit_progress true or false,
\* the first event delivered to the sink is the schema event, the last one is
\* the stats event, and no other schema or stats event is delivered.
C1_FirstSchemaLastStats ==
    RunSucceeded =>
        /\ sink # <<>>
        /\ sink[1].type = "schema"
        /\ sink[Len(sink)].type = "stats"
        /\ CountType(sink, "schema") = 1
        /\ CountType(sink, "stats") = 1

\* C1 (amended): in every successful run exactly one schema and one stats
\* event are delivered, and they are the first and the last of the delivered
\* events that are not progress frames; with emit_progress false they are the
\* first and the last delivered event, with emit_progress true the first and
\* the last delivered event are progress frames.
C1_SchemaFirstStatsLastAmongNonProgress ==
    RunSucceeded =>
        LET delivered == NonProgress(sink)
        IN  /\ Len(delivered) >= 2
            /\ delivered[1].type = "schema"
            /\ delivered[Len(delivered)].type = "stats"
            /\ CountType(sink, "schema") = 1
            /\ CountType(sink, "stats") = 1
            /\ IF run_config.emit_progress
               THEN sink[1].type = "progress" /\ sink[Len(sink)].type = "progress"
               ELSE sink = delivered

\* a successful run with progress frames and two body events between the
\* schema and the stats event
C1_Witness ==
    /\ RunSucceeded
    /\ run_config.emit_progress
    /\ Len(Body(sink)) = 2
    /\ CountType(sink, "progress") >= 2

\* C7: a successful run whose config carries a partition_count, in keyed
\* mode, delivers the events of the partitioned path (ascending partition id,
\* sorted within a partition); without partition_count, or in positional
\* mode, it delivers the events of the in-memory path.
C7_PathSelection ==
    RunSucceeded =>
        LET partitioned ==
                PartitionedDiff(a_file, b_file, run_options,
                                run_config.partition_count.some, 0)
            in_memory == diff_csv_files(a_file, b_file, run_options, 0)
        IN  IF run_config.partition_count # None /\ run_options.key_columns # <<>>
            THEN partitioned.ok /\ NonProgress(sink) = partitioned.val
            ELSE in_memory.ok /\ NonProgress(sink) = in_memory.val

-----------------------------------------------------------------------------
(* Properties of the diff library (Spec, SpecRepeat)                        *)

\* C2: for every valid keyed input pair, the in-memory keyed diff and the
\* partitioned diff (any partition count) succeed and their stats event has
\* rows_added + rows_removed + rows_changed + rows_unchanged =
\* |keys(A) union keys(B)| and rows_total_compared = |keys(A) intersect
\* keys(B)|, whatever emit_unchanged is.
C2_StatsCountKeys ==
    \A r \in RunSet :
        (Finished(r) /\ ValidKeyed(RunA(r), RunB(r), r.options)) =>
            /\ r.out.ok
            /\ LET stats == StatsOf(r.out.val)
                   keys_a == KeysOfFile(RunA(r), r.options.key_columns)
                   keys_b == KeysOfFile(RunB(r), r.options.key_columns)
               IN  /\ stats.type = "stats"
                   /\ stats.rows_added + stats.rows_removed + stats.rows_changed
                        + stats.rows_unchanged = Cardinality(keys_a \cup keys_b)
                   /\ stats.rows_total_compared = Cardinality(keys_a \cap keys_b)

\* a finished partitioned diff over two partitions with emit_unchanged false:
\* three keys in the union, one of them on both sides and unchanged
C2_Witness ==
    \E r \in RunSet :
        /\ Succeeded(r)
        /\ r.api = "partitioned" /\ r.partitions = 2
        /\ ~r.options.emit_unchanged
        /\ ValidKeyed(RunA(r), RunB(r), r.options)
        /\ StatsOf(r.out.val).rows_unchanged = 1
        /\ StatsOf(r.out.val).rows_added = 1
        /\ StatsOf(r.out.val).rows_removed = 1

\* C3: for every valid keyed input pair and every partition count, the body
\* events of the partitioned diff are, as a multiset, those of the run with
\* one partition and those of the in-memory diff, and the stats events are
\* equal; only the order of the body events may differ.
C3_PartitionInvariance ==
    \A r \in RunSet :
        (Finished(r) /\ r.api = "partitioned"
         /\ ValidKeyed(RunA(r), RunB(r), r.options)) =>
            LET one == PartitionedDiff(RunA(r), RunB(r), r.options, 1, 0)
                in_memory == diff_csv_files(RunA(r), RunB(r), r.options, 0)
            IN  /\ r.out.ok /\ one.ok /\ in_memory.ok
                /\ SameBag(Body(r.out.val), Body(one.val))
                /\ SameBag(Body(r.out.val), Body(in_memory.val))
                /\ StatsOf(r.out.val) = StatsOf(one.val)
                /\ StatsOf(r.out.val) = StatsOf(in_memory.val)

\* a partitioned diff over two partitions whose body events come in another
\* order than those of the in-memory diff
C3_Witness ==
    \E r \in RunSet :
        /\ Succeeded(r)
        /\ r.api = "partitioned" /\ r.partitions = 2
        /\ ValidKeyed(RunA(r), RunB(r), r.options)
        /\ Len(Body(r.out.val)) >= 3
        /\ Body(r.out.val) # Body(diff_csv_files(RunA(r), RunB(r), r.options, 0).val)

\* C4: two runs of the same function on the same files with the same options
\* and the same partition count end with the same result, event for event;
\* the iteration order of the hashed key index has no influence.
C4_Determinism ==
    (Len(runs) = 2 /\ Finished(runs[1]) /\ Finished(runs[2]) /\ ~runs[2].swap) =>
        runs[2].out = runs[1].out

\* a partitioned diff repeated on the same files, with three or more body events
C4_Witness ==
    /\ Len(runs) = 2
    /\ Succeeded(runs[1]) /\ Succeeded(runs[2])
    /\ ~runs[2].swap
    /\ runs[2].api = "partitioned" /\ runs[2].partitions = 2
    /\ Len(Body(runs[2].out.val)) >= 3

\* C5: the body events of the in-memory keyed diff come in strictly ascending
\* order of their key tuples (part by part, as strings), whatever the order
\* of the rows in the files; each key of the union has at most one event.
C5_SortedKeyOrder ==
    \A r \in RunSet :
        (Succeeded(r) /\ r.api = "diff_csv_files" /\ r.options.key_columns # <<>>) =>
            LET body == Body(r.out.val)
                key(i) == EventKey(body[i], r.options.key_columns)
            IN  /\ \A i \in 1..(Len(body) - 1) : TupleBefore(key(i), key(i + 1))
                /\ \A i \in 1..Len(body) :
                      key(i) \in KeysOfFile(RunA(r), r.options.key_columns)
                                   \cup KeysOfFile(RunB(r), r.options.key_columns)
                /\ \A i, j \in 1..Len(body) : key(i) = key(j) => i = j

\* an in-memory keyed diff of a file A whose two rows are not in key order,
\* with three body events
C5_Witness ==
    \E r \in RunSet :
        /\ Succeeded(r)
        /\ r.api = "diff_csv_files" /\ r.options.key_columns = <<S_id>>
        /\ Len(a_file) = 3
        /\ StrBefore(a_file[3][1], a_file[2][1])
        /\ Len(Body(r.out.val)) = 2
        /\ Len(b_file) = 3

\* C6: the body events of the partitioned diff come in ascending partition
\* id and, within a partition, in strictly ascending key order.
C6_PartitionThenKeyOrder ==
    \A r \in RunSet :
        (Succeeded(r) /\ r.api = "partitioned" /\ r.options.key_columns # <<>>) =>
            LET body == Body(r.out.val)
                key(i) == EventKey(body[i], r.options.key_columns)
                part(i) == partition_for_key(key(i), r.partitions)
            IN  \A i, j \in 1..Len(body) :
                    i < j => /\ part(i) <= part(j)
                             /\ part(i) = part(j) => TupleBefore(key(i), key(j))

\* a partitioned diff with events of both partitions, two of them in one
\* partition, where a later event has a smaller key than an earlier one
C6_Witness ==
    \E r \in RunSet :
        /\ Succeeded(r)
        /\ r.api = "partitioned" /\ r.partitions = 2
        /\ r.options.key_columns # <<>>
        /\ LET body == Body(r.out.val)
               key(i) == EventKey(body[i], r.options.key_columns)
               part(i) == partition_for_key(key(i), r.partitions)
           IN  /\ \E i, j \in 1..Len(body) : i < j /\ part(i) = part(j)
               /\ \E i, j \in 1..Len(body) :
                     i < j /\ part(i) < part(j) /\ TupleBefore(key(j), key(i))

\* the event of the run on (B, A) that answers event e of the run on (A, B)
SwapEvent(e) ==
    IF e.type = "added" THEN [e EXCEPT !.type = "removed"]
    ELSE IF e.type = "removed" THEN [e EXCEPT !.type = "added"]
    ELSE IF e.type = "changed"
    THEN [e EXCEPT !.before = e.after, !.after = e.before,
                   !.delta = [c \in DOMAIN e.delta |->
                                 [from |-> e.delta[c].to, to |-> e.delta[c].from]]]
    ELSE e

ChangedKeys(evts) == {evts[i].key : i \in {j \in 1..Len(evts) : evts[j].type = "changed"}}

\* C8: for every valid keyed input pair, the diff of (B, A) is the diff of
\* (A, B), event by event, with added and removed exchanged (same key and
\* row), each changed event keeping key and changed columns with before/after
\* and each delta's from/to exchanged; rows_added and rows_removed are
\* exchanged, the other counters equal, and the same keys have a changed event.
C8_SwapSymmetry ==
    (/\ Len(runs) = 2 /\ Finished(runs[1]) /\ Finished(runs[2])
     /\ runs[2].swap
     /\ ValidKeyed(a_file, b_file, runs[1].options)) =>
        /\ runs[1].out.ok /\ runs[2].out.ok
        /\ LET ab == Body(runs[1].out.val)
               ba == Body(runs[2].out.val)
               stats_ab == StatsOf(runs[1].out.val)
               stats_ba == StatsOf(runs[2].out.val)
           IN  /\ ba = [i \in 1..Len(ab) |-> SwapEvent(ab[i])]
               /\ stats_ba.rows_added = stats_ab.rows_removed
               /\ stats_ba.rows_removed = stats_ab.rows_added
               /\ stats_ba.rows_changed = stats_ab.rows_changed
               /\ stats_ba.rows_unchanged = stats_ab.rows_unchanged
               /\ stats_ba.rows_total_compared = stats_ab.rows_total_compared
               /\ ChangedKeys(ba) = ChangedKeys(ab)

\* the diff of (A, B) has a changed and a removed event and the diff of
\* (B, A) has run
C8_Witness ==
    /\ Len(runs) = 2
    /\ Succeeded(runs[1]) /\ Succeeded(runs[2])
    /\ runs[2].swap
    /\ ValidKeyed(a_file, b_file, runs[1].options)
    /\ CountType(runs[1].out.val, "changed") = 1
    /\ CountType(runs[1].out.val, "removed") = 1
    /\ CountType(runs[2].out.val, "added") = 1

\* C9: the diff of a valid input against itself (keyed on either path, or
\* positional) succeeds with no added, removed or changed event, rows_added =
\* rows_removed = rows_changed = 0 and rows_total_compared = rows_unchanged =
\* the number of data rows.
C9_Idempotence ==
    \A r \in RunSet :
        (Finished(r) /\ a_file = b_file) =>
            /\ (\/ ValidKeyed(a_file, a_file, r.options)
                \/ ValidPositional(a_file, a_file, r.options) /\ r.api = "diff_csv_files")
                  => r.out.ok
            /\ r.out.ok =>
                  LET stats == StatsOf(r.out.val)
                  IN  /\ \A i \in 1..Len(r.out.val) :
                            r.out.val[i].type \notin {"added", "removed", "changed"}
                      /\ stats.rows_added = 0
                      /\ stats.rows_removed = 0
                      /\ stats.rows_changed = 0
                      /\ stats.rows_total_compared = DataRowCount(a_file)
                      /\ stats.rows_unchanged = DataRowCount(a_file)

\* a file of two data rows diffed against itself, keyed, unchanged events on
C9_Witness ==
    \E r \in RunSet :
        /\ Succeeded(r)
        /\ a_file = b_file /\ DataRowCount(a_file) = 2
        /\ r.options.key_columns # <<>> /\ r.options.emit_unchanged
        /\ CountType(r.out.val, "unchanged") = 2

\* the positional comparison read off the files
RowsAgree(a, b, i) == \A c \in Range(a[1]) : CellOf(a, i + 2, c) = CellOf(b, i + 2, c)
PositionType(a, b, i) ==
    IF i < DataRowCount(a) /\ i < DataRowCount(b)
    THEN IF RowsAgree(a, b, i) THEN "unchanged" ELSE "changed"
    ELSE IF i < DataRowCount(a) THEN "removed" ELSE "added"
EmittedPositions(a, b, emit_unchanged) ==
    {i \in 0..(Max(DataRowCount(a), DataRowCount(b)) - 1) :
        emit_unchanged \/ PositionType(a, b, i) # "unchanged"}
NthPosition(positions, n) ==
    CHOOSE i \in positions : Cardinality({k \in positions : k < i}) = n - 1

\* C10: with key_columns empty, the in-memory diff emits, for the positions
\* i = 0 .. max(nA, nB) - 1 in increasing order, at most one body event each,
\* with row_index = i + 2 and no key: changed or unchanged when both files
\* have row i, removed when only A has it, added when only B has it; the
\* body has max(nA, nB) events less the unchanged pairs when emit_unchanged
\* is false, and exactly max(nA, nB) when it is true.
C10_PositionalEvents ==
    \A r \in RunSet :
        (Finished(r) /\ r.api = "diff_csv_files"
         /\ ValidPositional(a_file, b_file, r.options)) =>
            /\ r.out.ok
            /\ LET body == Body(r.out.val)
                   total == Max(DataRowCount(a_file), DataRowCount(b_file))
                   positions == EmittedPositions(a_file, b_file, r.options.emit_unchanged)
                   unchanged_pairs ==
                       Cardinality({i \in 0..(total - 1) :
                                       PositionType(a_file, b_file, i) = "unchanged"})
               IN  /\ Len(body) = Cardinality(positions)
                   /\ Len(body) = IF r.options.emit_unchanged THEN total
                                  ELSE total - unchanged_pairs
                   /\ \A n \in 1..Len(body) :
                         LET i == NthPosition(positions, n)
                         IN  /\ body[n].row_index = i + 2
                             /\ "key" \notin DOMAIN body[n]
                             /\ body[n].type = PositionType(a_file, b_file, i)

\* a positional diff where the first pair of rows is unchanged and not
\* emitted and the second row exists in A only
C10_Witness ==
    \E r \in RunSet :
        /\ Succeeded(r)
        /\ r.api = "diff_csv_files" /\ r.options.key_columns = <<>>
        /\ ~r.options.emit_unchanged
        /\ DataRowCount(a_file) = 2 /\ DataRowCount(b_file) = 1
        /\ Len(Body(r.out.val)) = 1
        /\ Body(r.out.val)[1].type = "removed"
        /\ Body(r.out.val)[1].row_index = 3

\* C13: whenever the driver returns the cancelled error, the stats event has
\* not been delivered, the sink holds exactly the events delivered before the
\* probe answered true (the first idx planned events, with their progress
\* frames), the sink only ever grows by appending, and after the cancelled
\* return nothing more reaches the sink.
C13_Cancellation ==
    /\ []((pc = "done" /\ result.kind = "Cancelled") =>
            /\ CountType(sink, "stats") = 0
            /\ idx < Len(events)
            /\ NonProgress(sink) = SubSeq(events, 1, idx))
    /\ [][Len(sink') >= Len(sink) /\ SubSeq(sink', 1, Len(sink)) = sink]_vars
    /\ [][(pc = "done" /\ result.kind = "Cancelled") =>
            (sink' = sink /\ sink_calls' = sink_calls)]_vars

\* a run cancelled at the probe before the stats event, after the schema
\* event and one body event were delivered
C13_Witness ==
    /\ pc = "done" /\ result.kind = "Cancelled"
    /\ idx = Len(events) - 1
    /\ Len(Body(sink)) >= 1
    /\ sink[Len(sink)].type # "stats"

\* the number of body events among the first i delivered events
BodyCountUpTo(i) == Len(Body(SubSeq(sink, 1, i)))
\* the number of events other than progress frames among the first i
DeliveredUpTo(i) == Len(NonProgress(SubSeq(sink, 1, i)))
FrameFollows(i) == i < Len(sink) /\ IsProgress(sink[i + 1])
FirstBodyIndex ==
    CHOOSE i \in 1..(Len(sink) + 1) :
        /\ i <= Len(sink) => IsBody(sink[i])
        /\ \A j \in 1..(i - 1) : ~IsBody(sink[j])

\* C14: with emit_progress true a successful run delivers a frame with
\* events_done = 0 before the first body event, a frame after a body event
\* exactly when the number of body events
\* delivered so far is a multiple of progress_interval_events, and exactly
\* one frame after the final event; every frame has phase "emit_events".
\* With emit_progress false no frame is ever delivered.
C14_ProgressCadence ==
    /\ (pc # "idle" /\ ~run_config.emit_progress) => CountType(sink, "progress") = 0
    /\ \A i \in 1..Len(sink) : IsProgress(sink[i]) => sink[i].phase = "emit_events"
    /\ (RunSucceeded /\ run_config.emit_progress) =>
        /\ \E i \in 1..(FirstBodyIndex - 1) :
              IsProgress(sink[i]) /\ sink[i].events_done = 0
        /\ \A i \in 1..Len(sink) :
              IsBody(sink[i]) =>
                 (FrameFollows(i) <=>
                     BodyCountUpTo(i) % run_config.progress_interval_events = 0)
        /\ sink[Len(sink)].type = "progress"
        /\ sink[Len(sink) - 1].type = "stats"

\* C15: with emit_progress true the first event the sink receives is a
\* progress frame with events_done = 0; every frame carries as events_total
\* the number of planned events (schema, body events and stats) and as
\* events_done the number of events other than frames delivered before it;
\* events_done grows strictly from frame to frame; a successful run ends
\* with a frame whose events_done equals events_total and has delivered at
\* least two frames.
C15_ProgressCounters ==
    (pc # "idle" /\ run_config.emit_progress) =>
        /\ sink # <<>> => sink[1] = [type |-> "progress", phase |-> "emit_events",
                                     events_done |-> 0, events_total |-> Len(events)]
        /\ \A i \in 1..Len(sink) :
              IsProgress(sink[i]) =>
                 /\ sink[i].events_total = Len(events)
                 /\ sink[i].events_total = 2 + Len(Body(events))
                 /\ sink[i].events_done = DeliveredUpTo(i - 1)
        /\ \A i, j \in 1..Len(sink) :
              (IsProgress(sink[i]) /\ IsProgress(sink[j]) /\ i < j) =>
                 sink[i].events_done < sink[j].events_done
        /\ RunSucceeded =>
              /\ IsProgress(sink[Len(sink)])
              /\ sink[Len(sink)].events_done = sink[Len(sink)].events_total
              /\ sink[Len(sink)].events_total = DeliveredUpTo(Len(sink))
              /\ CountType(sink, "progress") >= 2

\* a successful run with interval 2 and four planned events: frames with
\* events_done 0, 2 and 4
C15_Witness ==
    /\ RunSucceeded
    /\ run_config.emit_progress /\ run_config.progress_interval_events = 2
    /\ Len(events) = 4
    /\ CountType(sink, "progress") = 3

-----------------------------------------------------------------------------
(* Shape of changed events                                                  *)

\* a data row as the map from column name to cell
RowOf(file, i) == [c \in Range(file[1]) |-> CellOf(file, i, c)]
\* the strings of a set in ascending byte order
AscendingSeq(S) ==
    CHOOSE s \in [1..Cardinality(S) -> S] :
        \A i, j \in 1..Cardinality(S) : i < j => StrBefore(s[i], s[j])
\* the comparison columns in the order of the header mode
CompareOrder(a, header_mode) ==
    IF header_mode = "strict" THEN a[1] ELSE AscendingSeq(Range(a[1]))
Differing(a, i, b, j) == {c \in Range(a[1]) : CellOf(a, i, c) # CellOf(b, j, c)}
DifferingInOrder(a, i, b, j, header_mode) ==
    LET differs(c) == c \in Differing(a, i, b, j)
    IN  SelectSeq(CompareOrder(a, header_mode), differs)
\* the pairs <<i, j>> of a row of A and a row of B that the run compares
MatchedPairs(a, b, key_columns, positional) ==
    IF positional
    THEN {<<i, i>> : i \in 2..Min(Len(a), Len(b))}
    ELSE {p \in (2..Len(a)) \X (2..Len(b)) :
             RecordKey(a, p[1], key_columns) = RecordKey(b, p[2], key_columns)}
\* whether event e speaks of the pair p
EventOfPair(e, a, p, key_columns, positional) ==
    IF positional THEN e.row_index = p[1]
    ELSE EventKey(e, key_columns) = RecordKey(a, p[1], key_columns)
ChangedEventShape(e, a, b, p, header_mode) ==
    /\ e.changed = DifferingInOrder(a, p[1], b, p[2], header_mode)
    /\ e.changed # <<>>
    /\ e.before = RowOf(a, p[1])
    /\ e.after = RowOf(b, p[2])
    /\ DOMAIN e.delta = Range(e.changed)
    /\ \A c \in DOMAIN e.delta :
          /\ e.delta[c].from = e.before[c]
          /\ e.delta[c].to = e.after[c]
          /\ e.delta[c].from # e.delta[c].to
    /\ \A c \in DOMAIN e.before : c \notin Range(e.changed) => e.before[c] = e.after[c]

\* C17: in a successful diff (in memory, keyed or positional, and
\* partitioned) a pair of compared rows yields a changed event exactly when
\* some comparison column differs; the event lists exactly the differing
\* columns in comparison-column order, carries the full rows of A and B as
\* before and after, has one delta entry per listed column with from =
\* before[c], to = after[c] and from # to, and every column it does not list
\* has equal values in before and after.
C17_ChangedEvents ==
    \A r \in RunSet :
        Succeeded(r) =>
            LET a == RunA(r)
                b == RunB(r)
                keys == r.options.key_columns
                changed == {i \in 1..Len(r.out.val) : r.out.val[i].type = "changed"}
                positional == r.api = "diff_csv_files" /\ keys = <<>>
                pairs == MatchedPairs(a, b, keys, positional)
            IN  /\ \A p \in pairs :
                      (Differing(a, p[1], b, p[2]) # {}) <=>
                          \E i \in changed : EventOfPair(r.out.val[i], a, p, keys, positional)
                /\ \A i \in changed :
                      \E p \in pairs :
                          /\ EventOfPair(r.out.val[i], a, p, keys, positional)
                          /\ ChangedEventShape(r.out.val[i], a, b, p, r.options.header_mode)

\* a partitioned diff in sorted header mode with B's columns in another
\* order, one row pair changed in column name and one pair unchanged
C17_Witness ==
    \E r \in RunSet :
        /\ Succeeded(r)
        /\ r.api = "partitioned"
        /\ a_file[1] # b_file[1]
        /\ CountType(r.out.val, "changed") = 1
        /\ StatsOf(r.out.val).rows_unchanged = 1
        /\ \E i \in 1..Len(r.out.val) :
              /\ r.out.val[i].type = "changed"
              /\ r.out.val[i].changed = <<S_name>>
              /\ r.out.val[i].delta[S_name] = [from |-> S_x, to |-> S_y]

-----------------------------------------------------------------------------
(* Column order in sorted header mode                                       *)

\* the file with the columns of every record, header included, in reverse
\* order
PermuteColumns(file) == [i \in 1..Len(file) |-> Reverse(file[i])]
\* the result of the call of run r on the inputs a and b
SameCall(r, a, b) ==
    IF r.api = "diff_csv_files" THEN diff_csv_files(a, b, r.options, 0)
    ELSE PartitionedDiff(a, b, r.options, r.partitions, 0)

\* C19: in sorted header mode a successful diff of A and B, in memory or
\* partitioned, and the diff of A and B with B's columns permuted in the
\* header and in every row both succeed with the same body events in the same
\* order and the same stats; only the schema events differ, each carrying the
\* headers as they stand in the files.
C19_ColumnOrderInvariance ==
    \A r \in RunSet :
        (Succeeded(r) /\ r.options.header_mode = "sorted") =>
            LET permuted == SameCall(r, RunA(r), PermuteColumns(RunB(r)))
            IN  /\ permuted.ok
                /\ Body(permuted.val) = Body(r.out.val)
                /\ StatsOf(permuted.val) = StatsOf(r.out.val)
                /\ r.out.val[1] = [type |-> "schema", columns_a |-> RunA(r)[1],
                                   columns_b |-> RunB(r)[1]]
                /\ permuted.val[1] = [type |-> "schema", columns_a |-> RunA(r)[1],
                                      columns_b |-> Reverse(RunB(r)[1])]
                /\ \A i \in 2..Len(r.out.val) : r.out.val[i] = permuted.val[i]

\* a sorted-mode keyed diff of two files with the same header, with one
\* changed and one added row, whose permuted B has another header than A
C19_Witness ==
    \E r \in RunSet :
        /\ Succeeded(r)
        /\ r.options.header_mode = "sorted"
        /\ r.options.key_columns = <<S_id>>
        /\ a_file[1] = b_file[1]
        /\ PermuteColumns(b_file)[1] # a_file[1]
        /\ CountType(r.out.val, "changed") = 1
        /\ CountType(r.out.val, "added") = 1

-----------------------------------------------------------------------------
(* Key defects of keyed inputs (SpecInputs)                                 *)

\* the calls of the diff library among the runs
DiffRuns == {r \in RunSet : r.api \in {"diff_csv_files", "partitioned"}}
\* keyed input that is valid up to the values of its key cells
KeyedInput(a, b, options) ==
    /\ WellFormed(a) /\ WellFormed(b)
    /\ Reconcilable(a, b, options.header_mode)
    /\ options.key_columns # <<>>
    /\ Range(options.key_columns) \subseteq Range(a[1]) \cap Range(b[1])
MinOf(S) == CHOOSE i \in S : \A j \in S : i <= j
\* the rows with an empty cell in a key column, and the rows whose key tuple
\* stands on an earlier row of the same file
EmptyKeyRows(f, key_columns) ==
    {i \in 2..Len(f) : \E c \in Range(key_columns) : CellOf(f, i, c) = <<>>}
DuplicateRows(f, key_columns) ==
    {i \in 2..Len(f) : \E j \in 2..(i - 1) :
        RecordKey(f, j, key_columns) = RecordKey(f, i, key_columns)}
DefectRows(f, key_columns) == EmptyKeyRows(f, key_columns) \cup DuplicateRows(f, key_columns)
FirstOccurrence(f, i, key_columns) ==
    MinOf({j \in 2..i : RecordKey(f, j, key_columns) = RecordKey(f, i, key_columns)})
FirstEmptyKeyColumn(f, i, key_columns) ==
    key_columns[MinOf({n \in 1..Len(key_columns) : CellOf(f, i, key_columns[n]) = <<>>})]
SideFile(a, b, side) == IF side = "A" THEN a ELSE b
\* the side on which the scan of A and then of B meets its first key defect
FirstDefectSide(a, b, key_columns) ==
    IF DefectRows(a, key_columns) # {} THEN "A"
    ELSE IF DefectRows(b, key_columns) # {} THEN "B"
    ELSE "none"
NoEmptyKey(a, b, key_columns) ==
    EmptyKeyRows(a, key_columns) = {} /\ EmptyKeyRows(b, key_columns) = {}
HasDuplicate(a, b, key_columns) ==
    DuplicateRows(a, key_columns) # {} \/ DuplicateRows(b, key_columns) # {}
\* the error names a side, the key tuple and the two rows of that side that
\* carry it, the earlier row first
CitesDuplicate(out, a, b, key_columns) ==
    /\ ~out.ok
    /\ out.code = "duplicate_key"
    /\ out.info.side \in {"A", "B"}
    /\ LET f == SideFile(a, b, out.info.side)
       IN  /\ out.info.row_index \in DuplicateRows(f, key_columns)
           /\ out.info.prior_row = FirstOccurrence(f, out.info.row_index, key_columns)
           /\ out.info.prior_row < out.info.row_index
           /\ \A n \in 1..Len(key_columns) :
                 out.info.key[key_columns[n]] = CellOf(f, out.info.row_index, key_columns[n])

\* C11 (as stated): a keyed run, in memory or partitioned, on input where a
\* key tuple of non-empty values stands on two rows of the same side fails
\* with duplicate_key.
C11_DuplicateKeyAlways ==
    \A r \in DiffRuns :
        (/\ Finished(r)
         /\ KeyedInput(a_file, b_file, r.options)
         /\ \E f \in {a_file, b_file} :
               DuplicateRows(f, r.options.key_columns)
                   \ EmptyKeyRows(f, r.options.key_columns) # {}) =>
            ~r.out.ok /\ r.out.code = "duplicate_key"

\* C11 (amended): on keyed input with a key tuple on two rows of the same
\* side and no empty key cell on either side, the in-memory diff and the
\* partitioned diff (whose planner succeeds) fail with duplicate_key and no
\* events, citing a side, the key and the CSV row indices of the first and a
\* later row with that key on that side, the smaller first. When empty key
\* cells are present as well, the in-memory diff reports the duplicate if it
\* is the first key defect met in the scan of A and then B, and the
\* partitioned run never reports it.
C11_DuplicateKey ==
    \A r \in DiffRuns :
        (/\ KeyedInput(a_file, b_file, r.options)
         /\ HasDuplicate(a_file, b_file, r.options.key_columns)) =>
            LET keys == r.options.key_columns
                side == FirstDefectSide(a_file, b_file, keys)
                first == MinOf(DefectRows(SideFile(a_file, b_file, side), keys))
            IN  /\ NoEmptyKey(a_file, b_file, keys) =>
                      /\ r.api = "partitioned" => r.stage = "planned" \/ ~r.out.ok
                      /\ Finished(r) => CitesDuplicate(r.out, a_file, b_file, keys)
                /\ (Finished(r) /\ r.api = "diff_csv_files") =>
                      IF first \in EmptyKeyRows(SideFile(a_file, b_file, side), keys)
                      THEN ~r.out.ok /\ r.out.code = "missing_key_value"
                      ELSE /\ CitesDuplicate(r.out, a_file, b_file, keys)
                           /\ r.out.info.side = side
                           /\ r.out.info.row_index = first
                /\ (r.api = "partitioned" /\ ~NoEmptyKey(a_file, b_file, keys)) =>
                      Finished(r) /\ ~r.out.ok /\ r.out.code = "missing_key_value"

\* a partitioned run over two partitions whose planner succeeded and whose
\* diff failed on the duplicate key of rows 2 and 3 of B
C11_Witness ==
    \E r \in DiffRuns :
        /\ Finished(r)
        /\ r.api = "partitioned" /\ r.partitions = 2
        /\ r.spill_dir = "removed"
        /\ r.options.key_columns = <<S_id>>
        /\ ~r.out.ok /\ r.out.code = "duplicate_key"
        /\ r.out.info.side = "B"
        /\ r.out.info.prior_row = 2 /\ r.out.info.row_index = 3

\* the error names the side, the CSV row index and the key column of the
\* first empty key cell of file f
CitesEmptyKey(out, f, side, key_columns) ==
    /\ ~out.ok
    /\ out.code = "missing_key_value"
    /\ out.info.side = side
    /\ out.info.row_index = MinOf(EmptyKeyRows(f, key_columns))
    /\ out.info.column = FirstEmptyKeyColumn(f, out.info.row_index, key_columns)

\* C12 (as stated): a keyed run, in memory or partitioned, on input with an
\* empty cell in a key column of some data row of A or B fails with
\* missing_key_value.
C12_MissingKeyValueAlways ==
    \A r \in DiffRuns :
        (/\ Finished(r)
         /\ KeyedInput(a_file, b_file, r.options)
         /\ ~NoEmptyKey(a_file, b_file, r.options.key_columns)) =>
            ~r.out.ok /\ r.out.code = "missing_key_value"

\* C12 (amended): on keyed input with an empty key cell in some data row,
\* the partitioned run fails in the planner with missing_key_value naming
\* the first such row of A, or else of B, and its first empty key column, and
\* no events; the in-memory diff does the same unless a duplicate key is the
\* first key defect in its scan of A and then B, in which case it fails with
\* duplicate_key. Without duplicate keys both paths name the same side, row
\* and column.
C12_MissingKeyValue ==
    \A r \in DiffRuns :
        (/\ KeyedInput(a_file, b_file, r.options)
         /\ ~NoEmptyKey(a_file, b_file, r.options.key_columns)) =>
            LET keys == r.options.key_columns
                empty_side == IF EmptyKeyRows(a_file, keys) # {} THEN "A" ELSE "B"
                side == FirstDefectSide(a_file, b_file, keys)
                scanned == SideFile(a_file, b_file, side)
                first == MinOf(DefectRows(scanned, keys))
            IN  /\ Finished(r)
                /\ r.api = "partitioned" =>
                      /\ CitesEmptyKey(r.out, SideFile(a_file, b_file, empty_side),
                                       empty_side, keys)
                      /\ r.manifest = None
                /\ r.api = "diff_csv_files" =>
                      IF first \in EmptyKeyRows(scanned, keys)
                      THEN /\ CitesEmptyKey(r.out, scanned, side, keys)
                           /\ r.out.info.row_index = first
                      ELSE ~r.out.ok /\ r.out.code = "duplicate_key"
                /\ ~HasDuplicate(a_file, b_file, keys) =>
                      CitesEmptyKey(r.out, SideFile(a_file, b_file, empty_side),
                                    empty_side, keys)

\* a planner that spilled the two rows of A and failed on the empty key cell
\* of column id in row 2 of B
C12_Witness ==
    \E r \in DiffRuns :
        /\ Finished(r)
        /\ r.api = "partitioned"
        /\ r.spill_dir = "removed"
        /\ DataRowCount(a_file) = 2
        /\ r.options.key_columns = <<S_id, S_name>>
        /\ ~r.out.ok /\ r.out.code = "missing_key_value"
        /\ r.out.info = [side |-> "B", row_index |-> 2, column |-> S_id]

-----------------------------------------------------------------------------
(* Headers and the spill directory (SpecInputs)                             *)

CountIn(header, c) == Cardinality({i \in 1..Len(header) : header[i] = c})
SameMultiset(h1, h2) ==
    \A c \in Range(h1) \cup Range(h2) : CountIn(h1, c) = CountIn(h2, c)
HasDuplicateColumn(header) == \E c \in Range(header) : CountIn(header, c) > 1
HeadersReconcile(h1, h2, header_mode) ==
    IF header_mode = "strict" THEN h1 = h2 ELSE SameMultiset(h1, h2)
\* the inputs on which the planner comes to create its store
StoreReached(a, b, options) ==
    /\ Len(a) > 0 /\ Len(b) > 0
    /\ ~HasDuplicateColumn(a[1]) /\ ~HasDuplicateColumn(b[1])
    /\ HeadersReconcile(a[1], b[1], options.header_mode)
    /\ Range(options.key_columns) \subseteq Range(a[1]) \cap Range(b[1])

C18_HeaderReconciliation ==
    /\ \A r \in RunSet :
          r.api = "comparison_columns" =>
             LET a == a_file[1]
                 b == b_file[1]
             IN  /\ r.out = r.engine_out
                 /\ r.out.ok <=> HeadersReconcile(a, b, r.header_mode)
                 /\ ~r.out.ok => r.out.code = "header_mismatch"
                 /\ (r.out.ok /\ r.header_mode = "strict") => r.out.val = a
                 /\ (r.out.ok /\ r.header_mode = "sorted") =>
                       /\ SameMultiset(r.out.val, a)
                       /\ Len(r.out.val) = Len(a)
                       /\ \A i, j \in 1..Len(r.out.val) :
                             i < j => ~StrBefore(r.out.val[j], r.out.val[i])
    /\ \A r \in DiffRuns :
          (/\ WellFormed(a_file) /\ WellFormed(b_file)
           /\ ~HeadersReconcile(a_file[1], b_file[1], r.options.header_mode)) =>
              /\ Finished(r)
              /\ ~r.out.ok
              /\ r.out.code = "header_mismatch"

\* sorted mode on the headers id,id,name and id,name,name, which hold the
\* same names but differ as multisets
C18_Witness ==
    \E r \in RunSet :
        /\ r.api = "comparison_columns"
        /\ r.header_mode = "sorted"
        /\ a_file[1] = <<S_id, S_id, S_name>>
        /\ b_file[1] = <<S_id, S_name, S_name>>
        /\ ~r.out.ok /\ r.out.code = "header_mismatch"

FirstRepeatedName(header) ==
    header[MinOf({i \in 1..Len(header) : \E j \in 1..(i - 1) : header[j] = header[i]})]
CitesDuplicateColumn(out, header, side) ==
    /\ ~out.ok
    /\ out.code = "duplicate_column_name"
    /\ out.info = [side |-> side, name |-> FirstRepeatedName(header)]

\* C20: a diff, in memory or partitioned, of a file A whose header holds a
\* name twice fails with duplicate_column_name for side A; so does, for side
\* B, a diff whose file B has such a header when what is read before B's
\* header is in order (on the in-memory path all of A, header and row
\* widths; on the partitioned path the header of A). No events are
\* returned, and the error is reported also when the two headers differ, in
\* place of header_mismatch.
C20_DuplicateColumnName ==
    \A r \in DiffRuns :
        /\ (Len(a_file) > 0 /\ HasDuplicateColumn(a_file[1])) =>
              /\ Finished(r)
              /\ CitesDuplicateColumn(r.out, a_file[1], "A")
        /\ (/\ Len(b_file) > 0 /\ HasDuplicateColumn(b_file[1])
            /\ IF r.api = "diff_csv_files" THEN WellFormed(a_file)
               ELSE Len(a_file) > 0 /\ ~HasDuplicateColumn(a_file[1])) =>
              /\ Finished(r)
              /\ CitesDuplicateColumn(r.out, b_file[1], "B")

\* a strict-mode diff of A with header id,name and one row against B with
\* header id,id: the headers differ, the error is duplicate_column_name
C20_Witness ==
    \E r \in DiffRuns :
        /\ Finished(r)
        /\ r.api = "diff_csv_files"
        /\ r.options.header_mode = "strict"
        /\ Len(a_file) = 2 /\ a_file[1] = <<S_id, S_name>>
        /\ Len(b_file) > 0 /\ b_file[1] = <<S_id, S_id>>
        /\ ~r.out.ok /\ r.out.code = "duplicate_column_name"
        /\ r.out.info = [side |-> "B", name |-> S_id]

-----------------------------------------------------------------------------
(* Sink failures, the cancellation probe and the delivered prefix (SpecRun) *)

\* C22: a call of the sink that fails, for a planned event or for a progress
\* frame, ends the run at once with the sink error, which is neither a data
\* error nor the cancelled error: every call but a failed last one has
\* delivered its event, a failed call is the last call of the run, and after
\* the sink error the sink is not called again, so the failed event is not
\* retried and no later event is delivered.
C22_SinkFailure ==
    /\ [](/\ sink_calls \in {Len(sink), Len(sink) + 1}
          /\ (sink_calls = Len(sink) + 1) <=> (pc = "done" /\ result = EngineError_Sink)
          /\ EngineError_Sink.kind \notin {"Diff", "Cancelled", "Ok"})
    /\ [][(pc = "done" /\ result = EngineError_Sink) =>
            (sink' = sink /\ sink_calls' = sink_calls /\ idx' = idx)]_vars

\* the sink took every planned event and failed on the closing progress frame
C22_Witness ==
    /\ pc = "done" /\ result = EngineError_Sink
    /\ run_config.emit_progress
    /\ idx = Len(events)
    /\ Len(Body(sink)) >= 1
    /\ sink[Len(sink)].type = "stats"

\* C23: every event delivered to the sink, progress frames included, is
\* preceded by a consultation of the cancellation probe made after the
\* previous delivery, so that the events delivered never outnumber the
\* consultations.
C23_ProbeBeforeEveryDelivery ==
    Len(sink) <= probes

\* C29: at every point of every run the events in the sink that are not
\* progress frames are the first idx events, in order, of the list that
\* diff_csv_files computes for the inputs and options of the run; the run
\* returns success only when the whole list is in the sink.
C29_SinkPrefix ==
    pc # "idle" =>
        LET computed == diff_csv_files(a_file, b_file, run_options, 0)
        IN  /\ idx <= Len(events)
            /\ NonProgress(sink) = SubSeq(events, 1, idx)
            /\ IF computed.ok THEN events = computed.val
               ELSE events = <<>> /\ pc = "done" /\ result.kind = "Diff"
            /\ RunSucceeded => NonProgress(sink) = computed.val

\* a run that the sink ended after the schema event and one of two body
\* events, with progress frames in between
C29_Witness ==
    /\ pc = "done" /\ result = EngineError_Sink
    /\ run_config.emit_progress
    /\ Len(Body(events)) = 2
    /\ idx = 2
    /\ Len(sink) > 2

\* C28: when the driver returns a data error, whatever its code, the sink
\* has not been called (no schema event, no progress frame), the
\* cancellation probe has not been consulted, and the error is the one
\* diff_csv_files gives for the inputs.
C28_DataErrorsBeforeEmission ==
    /\ (pc = "done" /\ result.kind = "Diff") =>
          /\ sink = <<>>
          /\ sink_calls = 0
          /\ probes = 0
          /\ ~diff_csv_files(a_file, b_file, run_options, 0).ok
          /\ result.code = diff_csv_files(a_file, b_file, run_options, 0).code
    /\ (pc # "idle" /\ ~diff_csv_files(a_file, b_file, run_options, 0).ok) =>
          pc = "done" /\ result.kind = "Diff"

\* a run with progress frames enabled that ended on the duplicate key of
\* rows 2 and 3 of B
C28_Witness ==
    /\ pc = "done" /\ result.kind = "Diff"
    /\ run_config.emit_progress
    /\ result.code = "duplicate_key"
    /\ result.info.side = "B"
    /\ sink = <<>>

-----------------------------------------------------------------------------
(* The emit_unchanged option and the stats counters (Spec)                  *)

\* the call of run r with other options
SameCallWith(r, options) ==
    IF r.api = "diff_csv_files" THEN diff_csv_files(RunA(r), RunB(r), options, 0)
    ELSE PartitionedDiff(RunA(r), RunB(r), options, r.partitions, 0)
NotUnchanged(e) == e.type # "unchanged"
\* the compared pairs of rows whose comparison columns all agree
AgreeingPairs(r) ==
    {p \in MatchedPairs(RunA(r), RunB(r), r.options.key_columns,
                        r.api = "diff_csv_files" /\ r.options.key_columns = <<>>) :
        Differing(RunA(r), p[1], RunB(r), p[2]) = {}}

\* C21: a successful diff, in memory or partitioned, and the same call with
\* emit_unchanged the other way round both succeed; the one with
\* emit_unchanged false has no unchanged event, the one with emit_unchanged
\* true has exactly one unchanged event for every compared pair of rows whose
\* comparison columns all agree, and without its unchanged events it is the
\* list of the other one: same schema event, same added, removed and changed
\* events in the same order, same stats event with all five counters.
C21_EmitUnchanged ==
    \A r \in RunSet :
        Succeeded(r) =>
            LET flipped == SameCallWith(r, [r.options EXCEPT !.emit_unchanged = ~@])
                with == IF r.options.emit_unchanged THEN r.out.val ELSE flipped.val
                without == IF r.options.emit_unchanged THEN flipped.val ELSE r.out.val
                keys == r.options.key_columns
                positional == r.api = "diff_csv_files" /\ keys = <<>>
            IN  /\ flipped.ok
                /\ CountType(without, "unchanged") = 0
                /\ CountType(with, "unchanged") = Cardinality(AgreeingPairs(r))
                /\ \A p \in AgreeingPairs(r) :
                      \E i \in 1..Len(with) :
                          /\ with[i].type = "unchanged"
                          /\ EventOfPair(with[i], RunA(r), p, keys, positional)
                          /\ with[i].row = RowOf(RunA(r), p[1])
                /\ SelectSeq(with, NotUnchanged) = without
                /\ StatsOf(with) = StatsOf(without)
                /\ StatsOf(with).rows_unchanged = Cardinality(AgreeingPairs(r))

\* a partitioned diff with emit_unchanged false of inputs with one unchanged
\* and one changed pair of rows: rows_unchanged is 1, no unchanged event
C21_Witness ==
    \E r \in RunSet :
        /\ Succeeded(r)
        /\ r.api = "partitioned"
        /\ ~r.options.emit_unchanged
        /\ StatsOf(r.out.val).rows_unchanged = 1
        /\ CountType(r.out.val, "changed") = 1
        /\ CountType(r.out.val, "unchanged") = 0

\* C30: in every successful diff (in memory keyed, positional, partitioned;
\* a first call or a second call on the same or the exchanged inputs)
\* rows_added, rows_removed and rows_changed are the numbers of added,
\* removed and changed events of the list, rows_unchanged is the number of
\* unchanged events when emit_unchanged is true, and rows_total_compared =
\* rows_changed + rows_unchanged; in positional mode rows_total_compared is
\* the smaller of the two numbers of data rows, and rows_added and
\* rows_removed are not both non-zero.
C30_StatsAgreeWithEvents ==
    \A r \in RunSet :
        Succeeded(r) =>
            LET stats == StatsOf(r.out.val)
            IN  /\ stats.type = "stats"
                /\ stats.rows_added = CountType(r.out.val, "added")
                /\ stats.rows_removed = CountType(r.out.val, "removed")
                /\ stats.rows_changed = CountType(r.out.val, "changed")
                /\ r.options.emit_unchanged =>
                      stats.rows_unchanged = CountType(r.out.val, "unchanged")
                /\ stats.rows_total_compared = stats.rows_changed + stats.rows_unchanged
                /\ (r.api = "diff_csv_files" /\ r.options.key_columns = <<>>) =>
                      /\ stats.rows_total_compared =
                            Min(DataRowCount(RunA(r)), DataRowCount(RunB(r)))
                      /\ stats.rows_added = 0 \/ stats.rows_removed = 0

\* a second keyed call on the exchanged inputs after a first call that
\* counted an added row: the second one counts a removed row and no added one
C30_Witness ==
    /\ Len(runs) = 2
    /\ Succeeded(runs[1]) /\ Succeeded(runs[2])
    /\ runs[2].swap
    /\ runs[1].options.key_columns = <<S_id>>
    /\ StatsOf(runs[1].out.val).rows_added = 1
    /\ StatsOf(runs[1].out.val).rows_removed = 0
    /\ StatsOf(runs[2].out.val).rows_added = 0
    /\ StatsOf(runs[2].out.val).rows_removed = 1

-----------------------------------------------------------------------------
(* The two paths on inputs that need not be valid (SpecInputs)              *)

\* C27: on keyed input the partitioned path fails exactly when the in-memory
\* path fails on the same files and options, and when both fail they give
\* the same error code.
C27_ErrorParity ==
    \A r \in DiffRuns :
        (Finished(r) /\ r.api = "partitioned" /\ r.options.key_columns # <<>>) =>
            LET in_memory == diff_csv_files(a_file, b_file, r.options, 0)
            IN  /\ r.out.ok <=> in_memory.ok
                /\ ~r.out.ok => r.out.code = in_memory.code

-----------------------------------------------------------------------------
(* C24: spill store domain validation                                       *)

SpillOps == {r \in RunSet : r.api = "TempDirSpill"}
OutsideDomain(r) ==
    r.side \notin {"a", "b"} \/ r.partition_id >= r.before.partitions
StorageError(out) == ~out.ok /\ out.code = "storage_error"
FileOf(spill, path) == IF path \in DOMAIN spill.files THEN <<spill.files[path]>> ELSE <<>>

\* C24: on a store with P partitions every operation called with a side other
\* than "a" or "b", or with a partition id >= P, fails with a storage error
\* and leaves every file of the store as it was; creating a store with zero
\* partitions fails with a storage error; a valid append to (side, p) adds
\* exactly that one line at the end of the file of (side, p) and leaves every
\* other partition file unchanged.
C24_SpillDomainValidation ==
    \A r \in SpillOps :
        /\ (r.op = "new" /\ r.partition_id = 0) => StorageError(r.out) /\ r.spill = None
        /\ (r.op # "new" /\ OutsideDomain(r)) => StorageError(r.out) /\ r.spill = r.before
        /\ (r.op = "append_line" /\ ~OutsideDomain(r)) =>
               /\ r.out.ok
               /\ r.spill.partitions = r.before.partitions
               /\ FileOf(r.spill, <<r.side, r.partition_id>>)
                      = <<Append(IF <<r.side, r.partition_id>> \in DOMAIN r.before.files
                                 THEN r.before.files[<<r.side, r.partition_id>>]
                                 ELSE <<>>, r.line)>>
               /\ \A path \in (DOMAIN r.spill.files \cup DOMAIN r.before.files)
                                  \ {<<r.side, r.partition_id>>} :
                      FileOf(r.spill, path) = FileOf(r.before, path)

\* an append with partition id = P is rejected by a store that valid appends
\* have already written to
C24_Witness ==
    \E r \in SpillOps :
        /\ r.op = "append_line"
        /\ r.side = "b"
        /\ r.partition_id = r.before.partitions
        /\ StoredLines(r.before) > 0
        /\ StorageError(r.out)
        /\ r.spill = r.before

-----------------------------------------------------------------------------
(* C25: key hash and partition assignment                                   *)

HashCalls == {r \in RunSet : r.api = "partition_for_key"}
S_ab == <<97, 98>>
S_bc == <<98, 99>>
S_a == <<97>>
S_c == <<99>>
\* 9476362503708207610, least significant byte first
TestHash == <<250, 233, 91, 60, 125, 205, 130, 131>>
ByteSum(h) == h[1] + h[2] + h[3] + h[4] + h[5] + h[6] + h[7] + h[8]

\* the hash modulo m, for the m that divide 256 (the lowest byte decides) and
\* for m = 3 (256 = 1 modulo 3, so the sum of the bytes decides)
ModByDigits(h, m) == IF 256 % m = 0 THEN h[1] % m ELSE ByteSum(h) % 3

\* C25: stable_key_hash is 64-bit FNV-1a over the bytes of the parts in order
\* with one separator byte 0x1F between consecutive parts and none after the
\* last, so ["ab","c"] and ["a","bc"] hash differently; partition_for_key is
\* the hash modulo max(1, P), lies in [0, max(1, P)) and depends on its
\* arguments only; ["123","eu"] hashes to 9476362503708207610 and maps to
\* partition 250 of 256.
C25_KeyHashAndPartition ==
    \A r \in HashCalls :
        /\ r.hash = AbsorbBytes(FNV_OFFSET_BASIS, JoinParts(r.key_parts, <<31>>), 1)
        /\ r.key_parts = <<S_ab, S_c>> => r.hash # stable_key_hash(<<S_a, S_bc>>)
        /\ r.key_parts = <<S_a, S_bc>> => r.hash # stable_key_hash(<<S_ab, S_c>>)
        /\ r.out \in 0..(Max(1, r.partitions) - 1)
        /\ (256 % Max(1, r.partitions) = 0 \/ r.partitions = 3)
               => r.out = ModByDigits(r.hash, Max(1, r.partitions))
        /\ r.key_parts = <<S_123, S_eu>> => r.hash = TestHash
        /\ (r.key_parts = <<S_123, S_eu>> /\ r.partitions = 256) => r.out = 250
        /\ \A q \in HashCalls :
               (q.key_parts = r.key_parts /\ q.partitions = r.partitions)
                   => q.hash = r.hash /\ q.out = r.out

\* the key ["ab","c"] has been hashed twice and assigned to a partition of 3
C25_Witness ==
    /\ Len(runs) = 2
    /\ runs[1].api = "partition_for_key"
    /\ runs[2].key_parts = <<S_ab, S_c>>
    /\ runs[2].partitions = 3
    /\ runs[2].out = runs[1].out

-----------------------------------------------------------------------------
(* C26: planner bookkeeping                                                 *)

PlannedRuns == {r \in RunSet : r.api = "partitioned" /\ r.stage = "planned"}
SideTags == {"a", "b"}
SideInput(r, side) == IF side = "a" THEN RunA(r) ELSE RunB(r)
SideColumns(m, side) == IF side = "a" THEN m.columns_a ELSE m.columns_b
SideRowCount(m, side) == IF side = "a" THEN m.row_count_a ELSE m.row_count_b
SidePartitionRows(m, side) == IF side = "a" THEN m.partition_rows_a ELSE m.partition_rows_b
RECURSIVE SumOf(_)
SumOf(s) == IF s = <<>> THEN 0 ELSE s[1] + SumOf(Tail(s))
\* the key and the column -> value map of the data row at CSV index i
KeyOfRow(file, columns, i, key_columns) ==
    [j \in 1..Len(key_columns) |-> file[i][ColumnAt(columns, key_columns[j])]]
MapOfRow(file, columns, i) ==
    [c \in Range(columns) |-> file[i][ColumnAt(columns, c)]]
ReadBack(m, side, p) == read_spill_records(m.spill, side, p)
\* the places <<partition, position>> at which row i is read back
PlacesOfRow(m, side, i) ==
    {pl \in (0..(m.spill.partitions - 1)) \X (1..MaxRows) :
        /\ pl[2] <= Len(ReadBack(m, side, pl[1]).val)
        /\ ReadBack(m, side, pl[1]).val[pl[2]].row_index = i}

RecordMatchesRow(rec, p, file, columns, key_columns, partitions) ==
    /\ rec.row_index \in 2..Len(file)
    /\ rec.key = KeyOfRow(file, columns, rec.row_index, key_columns)
    /\ rec.row = MapOfRow(file, columns, rec.row_index)
    /\ p = partition_for_key(rec.key, partitions)

SideBookkeeping(r, m, side) ==
    /\ \A p \in 0..(m.spill.partitions - 1) :
           /\ ReadBack(m, side, p).ok
           /\ Len(ReadBack(m, side, p).val) = SidePartitionRows(m, side)[p + 1]
           /\ \A j, k \in 1..Len(ReadBack(m, side, p).val) :
                  j < k => ReadBack(m, side, p).val[j].row_index
                               < ReadBack(m, side, p).val[k].row_index
           /\ \A j \in 1..Len(ReadBack(m, side, p).val) :
                  RecordMatchesRow(ReadBack(m, side, p).val[j], p, SideInput(r, side),
                                   SideColumns(m, side), r.options.key_columns,
                                   m.spill.partitions)
           /\ (\A i \in 2..Len(SideInput(r, side)) :
                   partition_for_key(KeyOfRow(SideInput(r, side), SideColumns(m, side), i,
                                              r.options.key_columns),
                                     m.spill.partitions) # p)
                  => /\ <<side, p>> \notin DOMAIN m.spill.files
                     /\ ReadBack(m, side, p) = Ok(<<>>)
    /\ \A i \in 2..Len(SideInput(r, side)) : Cardinality(PlacesOfRow(m, side, i)) = 1
    /\ SumOf(SidePartitionRows(m, side)) = SideRowCount(m, side)
    /\ SideRowCount(m, side) = DataRowCount(SideInput(r, side))

\* C26: after partition_inputs_to_spill succeeds with P partitions, on each
\* side the spill records and the data rows correspond one to one: the row at
\* CSV index i with key k is stored exactly once, in partition
\* partition_for_key(k, P), with key k, row_index i and the same column ->
\* value row; the records of a partition read back in increasing row_index;
\* partition_rows[p] is the number of records read back from partition p and
\* the counts sum to row_count, the number of data rows; a partition that
\* received no row has no file and reads back as the empty list.
C26_PlannerBookkeeping ==
    \A r \in PlannedRuns :
        /\ r.manifest.spill.partitions = r.partitions
        /\ \A side \in SideTags : SideBookkeeping(r, r.manifest, side)

\* a plan over two partitions whose side A has a row in each partition and
\* whose side B left a partition without a file
C26_Witness ==
    \E r \in PlannedRuns :
        /\ r.partitions = 2
        /\ r.manifest.row_count_a = 2
        /\ {<<"a", 0>>, <<"a", 1>>} \subseteq DOMAIN r.manifest.spill.files
        /\ r.manifest.row_count_b > 0
        /\ \E p \in 0..1 : <<"b", p>> \notin DOMAIN r.manifest.spill.files

====
